---- MODULE Spec2Model ----
(***************************************************************************)
(* A model of carabiner-dev/vcslocator: the locator parser (locator.go),   *)
(* the repository URL synthesis (components.go) and the batched fetch      *)
(* orchestrator CopyFileGroup (get.go).                                    *)
(*                                                                         *)
(* Go strings are TLA+ strings; a character is a string of length one.     *)
(***************************************************************************)
EXTENDS Integers, Sequences, FiniteSets, TLC

\* ------------------------------------------------------------------------
\* strings: the parts of Go's strings package the program uses
\* ------------------------------------------------------------------------

\* With(v, Op) is Op(v) with v evaluated once: TLC evaluates a LET
\* definition and an operator argument each time it is used, a bound
\* variable only once.
With(v, Op(_)) == CHOOSE r \in {Op(x) : x \in {v}} : TRUE

Char(s, i) == SubSeq(s, i, i)

\* s[i:] with a 1-based i
From(s, i) == SubSeq(s, i, Len(s))

\* strings.Index for a separator of any length; 0 when sep is not in s
Index(str, sep) ==
    With(str, LAMBDA s :
        LET n == Len(sep)
            hits == {i \in 1..(Len(s) - n + 1) : SubSeq(s, i, i + n - 1) = sep}
        IN  IF hits = {} THEN 0
            ELSE CHOOSE i \in hits : \A j \in hits : i <= j)

\* strings.LastIndex; 0 when sep is not in s
LastIndex(str, sep) ==
    With(str, LAMBDA s :
        LET n == Len(sep)
            hits == {i \in 1..(Len(s) - n + 1) : SubSeq(s, i, i + n - 1) = sep}
        IN  IF hits = {} THEN 0
            ELSE CHOOSE i \in hits : \A j \in hits : i >= j)

Contains(s, sep) == Index(s, sep) # 0

HasPrefix(s, p) == Len(s) >= Len(p) /\ SubSeq(s, 1, Len(p)) = p

HasSuffix(s, p) == Len(s) >= Len(p) /\ From(s, Len(s) - Len(p) + 1) = p

TrimPrefix(s, p) == IF HasPrefix(s, p) THEN From(s, Len(p) + 1) ELSE s

\* a cut at the last separator instead of the first
CutLast(str, sep) ==
    With(str, LAMBDA s :
        With(LastIndex(s, sep), LAMBDA i :
            IF i = 0 THEN <<s, "", FALSE>>
            ELSE <<SubSeq(s, 1, i - 1), From(s, i + Len(sep)), TRUE>>))

\* strings.Cut: <<before, after, found>>
Cut(str, sep) ==
    With(str, LAMBDA s :
        With(Index(s, sep), LAMBDA i :
            IF i = 0 THEN <<s, "", FALSE>>
            ELSE <<SubSeq(s, 1, i - 1), From(s, i + Len(sep)), TRUE>>))

LowerLetters == {"a","b","c","d","e","f","g","h","i","j","k","l","m",
                 "n","o","p","q","r","s","t","u","v","w","x","y","z"}
UpperLetters == {"A","B","C","D","E","F","G","H","I","J","K","L","M",
                 "N","O","P","Q","R","S","T","U","V","W","X","Y","Z"}
Digits == {"0","1","2","3","4","5","6","7","8","9"}
LowerHex == Digits \cup {"a","b","c","d","e","f"}
AnyHex == LowerHex \cup {"A","B","C","D","E","F"}

LowerOf(c) ==
    CASE c = "A" -> "a" [] c = "B" -> "b" [] c = "C" -> "c" [] c = "D" -> "d"
      [] c = "E" -> "e" [] c = "F" -> "f" [] c = "G" -> "g" [] c = "H" -> "h"
      [] c = "I" -> "i" [] c = "J" -> "j" [] c = "K" -> "k" [] c = "L" -> "l"
      [] c = "M" -> "m" [] c = "N" -> "n" [] c = "O" -> "o" [] c = "P" -> "p"
      [] c = "Q" -> "q" [] c = "R" -> "r" [] c = "S" -> "s" [] c = "T" -> "t"
      [] c = "U" -> "u" [] c = "V" -> "v" [] c = "W" -> "w" [] c = "X" -> "x"
      [] c = "Y" -> "y" [] c = "Z" -> "z" [] OTHER -> c

RECURSIVE ToLower(_)
ToLower(s) == IF s = "" THEN "" ELSE LowerOf(Char(s, 1)) \o ToLower(Tail(s))

AllIn(str, set) == With(str, LAMBDA s : \A i \in 1..Len(s) : Char(s, i) \in set)

\* ------------------------------------------------------------------------
\* net/url.Parse, as far as Locator.Parse reads its result: Scheme,
\* Hostname(), Path and Fragment.  Inputs hold no '?', no '[' and no
\* control byte.
\* ------------------------------------------------------------------------

\* the byte a %XX escape stands for, for the escapes the inputs use
EscapedByte(hex) ==
    CASE ToLower(hex) = "2e" -> "."
      [] ToLower(hex) = "2f" -> "/"
      [] ToLower(hex) = "40" -> "@"
      [] ToLower(hex) = "23" -> "#"
      [] ToLower(hex) = "3a" -> ":"
      [] ToLower(hex) = "2b" -> "+"
      [] ToLower(hex) = "25" -> "%"

\* url.unescape fails on a '%' that is not followed by two hex digits
UnescapeOK(str) ==
    With(str, LAMBDA s :
        \A i \in 1..Len(s) :
            Char(s, i) = "%" =>
                i + 2 <= Len(s) /\ AllIn(SubSeq(s, i + 1, i + 2), AnyHex))

\* url.unescape of a string that passes UnescapeOK
RECURSIVE UnescapeStr(_)
UnescapeStr(s) ==
    IF s = "" THEN ""
    ELSE IF Char(s, 1) = "%"
    THEN EscapedByte(SubSeq(s, 2, 3)) \o UnescapeStr(From(s, 4))
    ELSE Char(s, 1) \o UnescapeStr(Tail(s))

Unescape(str) ==
    With(str, LAMBDA s :
        IF UnescapeOK(s) THEN [ok |-> TRUE, s |-> UnescapeStr(s)]
        ELSE [ok |-> FALSE, s |-> ""])

SchemeChars == LowerLetters \cup UpperLetters \cup Digits \cup {"+", "-", "."}

\* url.getScheme: [ok, scheme, rest]
getScheme(str) ==
    With(str, LAMBDA rawURL :
        LET stops == {i \in 1..Len(rawURL) :
                        \/ Char(rawURL, i) \notin SchemeChars
                        \/ (i = 1 /\ Char(rawURL, 1) \in Digits \cup {"+", "-", "."})}
        IN  IF stops = {} THEN [ok |-> TRUE, scheme |-> "", rest |-> rawURL]
            ELSE With(CHOOSE k \in stops : \A j \in stops : k <= j, LAMBDA i :
                    IF Char(rawURL, i) = ":"
                    THEN IF i = 1 THEN [ok |-> FALSE, scheme |-> "", rest |-> ""]
                         ELSE [ok |-> TRUE, scheme |-> SubSeq(rawURL, 1, i - 1),
                               rest |-> From(rawURL, i + 1)]
                    ELSE [ok |-> TRUE, scheme |-> "", rest |-> rawURL]))

\* url.validOptionalPort: "" or ":" followed by digits
validOptionalPort(port) ==
    port = "" \/ (Char(port, 1) = ":" /\ AllIn(Tail(port), Digits))

\* url.unescape in host mode: besides %25, only a byte of 0x80 and above
\* may be escaped in a host
HostEscapeOK(str) ==
    With(str, LAMBDA s :
        /\ UnescapeOK(s)
        /\ \A i \in 1..Len(s) :
              Char(s, i) = "%" =>
                  \/ SubSeq(s, i, i + 2) = "%25"
                  \/ Char(s, i + 1) \notin {"0", "1", "2", "3", "4", "5", "6", "7"})

\* url.parseAuthority and parseHost: the host (with its port) after the
\* last '@' of the authority; the userinfo before it is dropped
parseAuthority(authority) ==
    With(From(authority, LastIndex(authority, "@") + 1), LAMBDA host :
        With(LastIndex(host, ":"), LAMBDA colon :
            IF colon # 0 /\ ~validOptionalPort(From(host, colon))
            THEN [ok |-> FALSE, host |-> ""]
            ELSE [ok |-> HostEscapeOK(host),
                  host |-> IF HostEscapeOK(host) THEN UnescapeStr(host) ELSE ""]))

\* URL.Hostname: the host without a valid port
Hostname(str) ==
    With(str, LAMBDA host :
        With(LastIndex(host, ":"), LAMBDA colon :
            IF colon # 0 /\ validOptionalPort(From(host, colon))
            THEN SubSeq(host, 1, colon - 1) ELSE host))

NoURL == [ok |-> FALSE, Scheme |-> "", Host |-> "", Path |-> "", Fragment |-> ""]

\* url.parse after the scheme and the fragment are split off: the
\* authority and the path of rest
urlParseRest(scheme, rest, frag) ==
    IF ~HasPrefix(rest, "/") /\ scheme # ""
    THEN \* a rootless path after a scheme is opaque: no host, no path
         IF frag.ok
         THEN [ok |-> TRUE, Scheme |-> scheme, Host |-> "", Path |-> "",
               Fragment |-> frag.s]
         ELSE NoURL
    ELSE IF ~HasPrefix(rest, "/") /\ Contains(Cut(rest, "/")[1], ":")
    THEN NoURL \* first path segment in URL cannot contain colon
    ELSE IF (scheme # "" \/ ~HasPrefix(rest, "///")) /\ HasPrefix(rest, "//")
    THEN With(Cut(From(rest, 3), "/"), LAMBDA cut :
            With(parseAuthority(cut[1]), LAMBDA auth :
                With(Unescape(IF cut[3] THEN "/" \o cut[2] ELSE ""), LAMBDA path :
                    IF auth.ok /\ path.ok /\ frag.ok
                    THEN [ok |-> TRUE, Scheme |-> scheme, Host |-> auth.host,
                          Path |-> path.s, Fragment |-> frag.s]
                    ELSE NoURL)))
    ELSE With(Unescape(rest), LAMBDA path :
            IF path.ok /\ frag.ok
            THEN [ok |-> TRUE, Scheme |-> scheme, Host |-> "",
                  Path |-> path.s, Fragment |-> frag.s]
            ELSE NoURL)

\* url.Parse
urlParse(rawURL) ==
    With(Cut(rawURL, "#"), LAMBDA cut :
        With(getScheme(cut[1]), LAMBDA sch :
            With(Unescape(cut[2]), LAMBDA frag :
                IF ~sch.ok THEN NoURL
                ELSE urlParseRest(ToLower(sch.scheme), sch.rest, frag))))

\* ------------------------------------------------------------------------
\* options.go
\* ------------------------------------------------------------------------

\* the functional options, applied to an options value
WithRefAsBranch(o, sino) == [o EXCEPT !.RefIsBranch = sino]
WithClonePath(o, path) == [o EXCEPT !.ClonePath = path]
WithSystemCredentials(o, yesno) == [o EXCEPT !.ReadCredentials = yesno]
WithHttpAuth(o, user, password) ==
    [o EXCEPT !.HttpUsername = user, !.HttpPassword = password]

defaultOptions ==
    [RefIsBranch |-> FALSE, ClonePath |-> "", ReadCredentials |-> TRUE,
     HttpUsername |-> "", HttpPassword |-> ""]

\* ------------------------------------------------------------------------
\* locator.go: Locator.Parse and parseRefString
\* ------------------------------------------------------------------------

TransportSSH == "ssh"
TransportHTTPS == "https"
TransportFile == "file"
ToolGit == "git"

\* sha1Pattern ^[a-f0-9]{40}$
sha1Regex(s) == Len(s) = 40 /\ AllIn(s, LowerHex)

\* a short hash in either case
sha1ShortRegexAnyCase(s) == Len(s) = 7 /\ AllIn(s, AnyHex)

\* sha1ShortPattern ^[a-f0-9]{7}$
sha1ShortRegex(s) == Len(s) = 7 /\ AllIn(s, LowerHex)

\* a slug taking dots as well
SlugCharsAndDot == LowerLetters \cup UpperLetters \cup Digits \cup {"-", "_", "."}

SlugChars == LowerLetters \cup UpperLetters \cup Digits \cup {"-", "_"}

\* slugRegexPattern ^[-A-Za-z0-9_]+/[-A-Za-z0-9_]+$
slugRegex(str) ==
    With(str, LAMBDA s :
        With(Index(s, "/"), LAMBDA i :
            /\ i > 1
            /\ i < Len(s)
            /\ AllIn(SubSeq(s, 1, i - 1), SlugChars)
            /\ AllIn(From(s, i + 1), SlugChars)))

\* parseRefString taking the token for a branch without asking whether it
\* is a commit hash
parseRefStringHashAsBranch(str, opts) ==
    With(str, LAMBDA ref :
        With(IF sha1Regex(ref) \/ sha1ShortRegex(ref) THEN ref ELSE "",
             LAMBDA commitSha :
            CASE HasPrefix(ref, "refs/tags/") ->
                    [tag |-> TrimPrefix(ref, "refs/tags/"), branch |-> "",
                     commitSha |-> commitSha]
              [] ~HasPrefix(ref, "refs/tags/") /\ HasPrefix(ref, "refs/heads/") ->
                    [tag |-> "", branch |-> TrimPrefix(ref, "refs/heads/"),
                     commitSha |-> commitSha]
              [] OTHER ->
                    IF opts.RefIsBranch
                    THEN [tag |-> "", branch |-> ref, commitSha |-> commitSha]
                    ELSE IF commitSha = "" /\ ~HasPrefix(ref, "refs/")
                    THEN [tag |-> ref, branch |-> "", commitSha |-> commitSha]
                    ELSE [tag |-> "", branch |-> "", commitSha |-> commitSha]))

\* parseRefString asking the option before it looks for a ref path
parseRefStringOptionFirst(str, opts) ==
    With(str, LAMBDA ref :
        With(IF sha1Regex(ref) \/ sha1ShortRegex(ref) THEN ref ELSE "",
             LAMBDA commitSha :
            CASE commitSha = "" /\ opts.RefIsBranch ->
                    [tag |-> "", branch |-> ref, commitSha |-> commitSha]
              [] ~(commitSha = "" /\ opts.RefIsBranch)
                    /\ HasPrefix(ref, "refs/tags/") ->
                    [tag |-> TrimPrefix(ref, "refs/tags/"), branch |-> "",
                     commitSha |-> commitSha]
              [] ~(commitSha = "" /\ opts.RefIsBranch)
                    /\ ~HasPrefix(ref, "refs/tags/")
                    /\ HasPrefix(ref, "refs/heads/") ->
                    [tag |-> "", branch |-> TrimPrefix(ref, "refs/heads/"),
                     commitSha |-> commitSha]
              [] OTHER ->
                    IF commitSha = "" /\ ~HasPrefix(ref, "refs/")
                    THEN [tag |-> ref, branch |-> "", commitSha |-> commitSha]
                    ELSE [tag |-> "", branch |-> "", commitSha |-> commitSha]))

\* parseRefString without the RefIsBranch option
parseRefStringAlwaysTag(str, opts) ==
    With(str, LAMBDA ref :
        With(IF sha1Regex(ref) \/ sha1ShortRegex(ref) THEN ref ELSE "",
             LAMBDA commitSha :
            CASE HasPrefix(ref, "refs/tags/") ->
                    [tag |-> TrimPrefix(ref, "refs/tags/"), branch |-> "",
                     commitSha |-> commitSha]
              [] ~HasPrefix(ref, "refs/tags/") /\ HasPrefix(ref, "refs/heads/") ->
                    [tag |-> "", branch |-> TrimPrefix(ref, "refs/heads/"),
                     commitSha |-> commitSha]
              [] OTHER ->
                    IF commitSha = "" /\ ~HasPrefix(ref, "refs/")
                    THEN [tag |-> ref, branch |-> "", commitSha |-> commitSha]
                    ELSE [tag |-> "", branch |-> "", commitSha |-> commitSha]))

\* parseRefString: the tag, branch and commit a revision token stands for
parseRefString(str, opts) ==
    With(str, LAMBDA ref :
        With(IF sha1Regex(ref) \/ sha1ShortRegex(ref) THEN ref ELSE "",
             LAMBDA commitSha :
            CASE HasPrefix(ref, "refs/tags/") ->
                    [tag |-> TrimPrefix(ref, "refs/tags/"), branch |-> "",
                     commitSha |-> commitSha]
              [] ~HasPrefix(ref, "refs/tags/") /\ HasPrefix(ref, "refs/heads/") ->
                    [tag |-> "", branch |-> TrimPrefix(ref, "refs/heads/"),
                     commitSha |-> commitSha]
              [] OTHER ->
                    IF commitSha = "" /\ opts.RefIsBranch
                    THEN [tag |-> "", branch |-> ref, commitSha |-> commitSha]
                    ELSE IF commitSha = "" /\ ~opts.RefIsBranch
                            /\ ~HasPrefix(ref, "refs/")
                    THEN [tag |-> ref, branch |-> "", commitSha |-> commitSha]
                    ELSE [tag |-> "", branch |-> "", commitSha |-> commitSha]))

NoComponents ==
    [Tool |-> "", Transport |-> "", Hostname |-> "", RepoPath |-> "",
     RefString |-> "", Commit |-> "", Tag |-> "", Branch |-> "", SubPath |-> ""]

ParseError == [err |-> TRUE, c |-> NoComponents]

\* the transports of a locator without a tool, http among them
supportedTransportsAndHTTP == {TransportHTTPS, TransportSSH, TransportFile, "http"}

\* the transports Parse takes when the scheme names no tool
supportedTransports == {TransportHTTPS, TransportSSH, TransportFile}

\* a file locator keeping its host name
hostKept(transport, hostname) == FALSE

\* the host name of a file URI goes in front of the path
hostIntoPath(transport, hostname) == transport = TransportFile /\ hostname # ""

\* Locator.Parse from "Cut the ref from the path" on: u is the parsed URL,
\* path and ref the two sides of the first '@' of u.Path, r the classified
\* ref
ParseScheme(u, path, ref, r, transportIsFile) ==
    With(Cut(u.Scheme, "+"), LAMBDA sc :
        LET si == sc[3] \/ transportIsFile
            \* without a '+' the whole scheme is the transport
            tool == IF transportIsFile THEN "git" ELSE IF si THEN sc[1] ELSE ""
            transport == IF transportIsFile THEN TransportFile
                         ELSE IF si THEN sc[2] ELSE sc[1]
            hostname == Hostname(u.Host)
            fold == hostIntoPath(transport, hostname)
            path2 == IF ~fold THEN path
                     ELSE IF path = "" THEN hostname
                     ELSE hostname \o "/" \o TrimPrefix(path, "/")
        IN  IF ~si /\ transport \notin supportedTransports
            THEN ParseError
            ELSE IF path2 = "" /\ transport = TransportFile
            THEN ParseError
            ELSE [err |-> FALSE,
                  c |-> [Tool |-> tool, Transport |-> transport,
                         Hostname |-> IF fold THEN "" ELSE hostname,
                         RepoPath |-> path2, RefString |-> ref,
                         Commit |-> r.commitSha, Tag |-> r.tag,
                         Branch |-> r.branch, SubPath |-> u.Fragment]])

\* Locator.Parse: [err, c]; c is the Components value when err is FALSE
Parse(l, opts) ==
    IF l = "" THEN ParseError
    ELSE
    With(urlParse(TrimPrefix(l, TransportFile \o "://")), LAMBDA u :
        With(Cut(u.Path, "@"), LAMBDA cut :
            With(parseRefString(cut[2], opts), LAMBDA r :
                IF ~u.ok THEN ParseError
                ELSE IF Hostname(u.Host) = "" /\ u.Scheme = "" /\ u.Path # ""
                        /\ slugRegex(cut[1])
                THEN [err |-> FALSE,
                      c |-> [Tool |-> "git", Transport |-> "https",
                             Hostname |-> "github.com", RepoPath |-> cut[1],
                             RefString |-> cut[2], Commit |-> r.commitSha,
                             Tag |-> r.tag, Branch |-> r.branch,
                             SubPath |-> u.Fragment]]
                ELSE ParseScheme(u, cut[1], cut[2], r,
                                 HasPrefix(l, TransportFile \o "://")))))

\* ------------------------------------------------------------------------
\* components.go: Components.RepoURL
\* ------------------------------------------------------------------------

RepoURL(c) ==
    CASE c.Transport \in {"https", ""} ->
            "https://" \o c.Hostname \o "/" \o TrimPrefix(c.RepoPath, "/")
      [] c.Transport = "ssh" ->
            "git@" \o c.Hostname \o ":" \o TrimPrefix(c.RepoPath, "/")
      [] OTHER -> ""

\* ------------------------------------------------------------------------
\* The repository provider (go-git) and the filesystem it returns.
\*
\* A clone is identified by what was cloned and how: the URL, the
\* reference asked for, the commit checked out, the credentials sent and
\* the directory cloned into.  Every clone holds the same tree; the
\* content of a file is the pair of the clone and the path, so that content
\* read from two different clones is different content.
\* ------------------------------------------------------------------------

\* no credentials
NoAuth == [kind |-> "none", Username |-> "", Password |-> ""]

NoFS ==
    [url |-> "", reference |-> "", commit |-> "", auth |-> NoAuth,
     clonePath |-> "", nil |-> TRUE]

\* the tree of every repository: f, g, d/x, dx/y
RegularFiles == {"f", "g", "d/x", "dx/y"}
Directories == {"d", "dx"}

\* fs.FS.Open succeeds on the files and directories of the tree
OpenOK(path) == path \in RegularFiles \cup Directories

\* io.Copy reads the whole file; reading a directory fails
CopyOK(path) == path \in RegularFiles

\* what io.Copy hands to the writer: the whole file, or on a failed copy
\* some proper prefix of it (possibly nothing)
FileContent(fsobj, path, whole) == [fs |-> fsobj, path |-> path, whole |-> whole]

NoErr == ""

\* plumbing.NewBranchReferenceName, plumbing.NewTagReferenceName
CloneReference(c) ==
    IF c.Branch # "" THEN "refs/heads/" \o c.Branch
    ELSE IF c.Tag # "" THEN "refs/tags/" \o c.Tag
    ELSE ""

\* the URL handed to git.Clone
CloneURL(c) == IF c.Transport = "file" THEN c.RepoPath ELSE RepoURL(c)

\* the commit checked out after the clone: the locator's commit, or the
\* commit a late-fetched reference resolves to
CheckoutCommit(c) ==
    IF CloneReference(c) = "" /\ c.Commit = "" /\ c.RefString # ""
    THEN "resolved:" \o c.RefString
    ELSE c.Commit

\* git.Clone reaches every repository but those of the host "down"; it
\* rejects an empty URL
Reachable(url) == url # "" /\ ~HasPrefix(url, "https://down/")

\* auth.go, getHTTPAuth: basic auth from the options, nil without any
getHTTPAuth(opts) ==
    IF opts.HttpPassword = "" /\ opts.HttpUsername = "" THEN NoAuth
    ELSE [kind |-> "basic", Username |-> opts.HttpUsername,
          Password |-> opts.HttpPassword]

\* auth.go, getSSHAuth when the agent or a key file is there
SSHAuth == [kind |-> "ssh", Username |-> "git", Password |-> ""]

\* auth.go, GetAuthMethod: [auth, err]; sshOK tells whether getSSHAuth
\* finds an agent or a key.  The locator is parsed with the default
\* options.
GetAuthMethod(locator, opts, sshOK) ==
    With(Parse(locator, defaultOptions), LAMBDA p :
        IF p.err THEN [auth |-> NoAuth, err |-> "parsing locator"]
        ELSE IF p.c.Transport = TransportSSH
        THEN IF sshOK THEN [auth |-> SSHAuth, err |-> NoErr]
             ELSE [auth |-> NoAuth, err |-> "no SSH authentication method available"]
        ELSE IF p.c.Transport = TransportHTTPS
        THEN [auth |-> getHTTPAuth(opts), err |-> NoErr]
        ELSE [auth |-> NoAuth, err |-> NoErr])

\* CloneRepository asking for credentials whatever the options say
readsCredentialsAlways(opts) == TRUE

\* CloneRepository asks for credentials when the options say so
readsCredentials(opts) == opts.ReadCredentials

\* the credentials CloneRepository hands to git.Clone: those of
\* GetAuthMethod(l), which is called without the caller's options
CloneAuth(locator, opts, sshOK) ==
    IF readsCredentials(opts) THEN GetAuthMethod(locator, defaultOptions, sshOK)
    ELSE [auth |-> NoAuth, err |-> NoErr]

\* CloneRepository taking any tool for git
toolAny(components) == TRUE

\* CloneRepository goes on only for the git tool
toolSupported(components) == components.Tool = "git"

\* CloneRepository: the result [fs, err] of a call in which the provider
\* fails in git.Clone only, and getSSHAuth finds a key.  The locator is
\* parsed with the default options.
CloneRepository(locator, opts) ==
    With(Parse(locator, defaultOptions), LAMBDA p :
        With(CloneAuth(locator, opts, TRUE), LAMBDA a :
            IF p.err THEN [fs |-> NoFS, err |-> "parsing locator"]
            ELSE IF ~toolSupported(p.c)
            THEN [fs |-> NoFS, err |-> "only git locators are supported for cloning"]
            ELSE IF a.err # NoErr
            THEN [fs |-> NoFS, err |-> "getting git auth method"]
            ELSE IF ~Reachable(CloneURL(p.c))
            THEN [fs |-> NoFS, err |-> "cloning repo"]
            ELSE [fs |-> [url |-> CloneURL(p.c), reference |-> CloneReference(p.c),
                          commit |-> CheckoutCommit(p.c), auth |-> a.auth,
                          clonePath |-> opts.ClonePath, nil |-> FALSE],
                  err |-> NoErr]))

\* ------------------------------------------------------------------------
\* github.com/nozzle/throttler, as CopyFileGroup uses it
\* ------------------------------------------------------------------------

NoThrottler ==
    [maxWorkers |-> 0, totalJobs |-> 0, jobsStarted |-> 0, workerCount |-> 0,
     doneChan |-> 0, errs |-> {}]

\* throttler.New
NewThrottler(maxWorkers, totalJobs) ==
    [NoThrottler EXCEPT !.maxWorkers = maxWorkers, !.totalJobs = totalJobs]

\* Throttle, up to its first receive: one more job started, and one more
\* worker counted unless that makes the pool full (then one completion is
\* awaited at once and the worker is not counted)
ThrottleWaits(th) == th.workerCount + 1 = th.maxWorkers

ThrottleEnter(th) ==
    [th EXCEPT !.jobsStarted = @ + 1,
               !.workerCount = IF ThrottleWaits(th) THEN @ ELSE @ + 1]

\* <-doneChan
ThrottleRecv(th) == [th EXCEPT !.doneChan = @ - 1]

\* Throttle's last loop: every job started, wait for the counted workers
ThrottleDrainOne(th) == [th EXCEPT !.workerCount = @ - 1, !.doneChan = @ - 1]

\* Done(err): the error, when there is one, joins errs (a set here: their
\* order is the order of completion and nothing reads it)
ThrottleDone(th, err) ==
    [th EXCEPT !.doneChan = @ + 1,
               !.errs = IF err = NoErr THEN @ ELSE @ \cup {err}]

\* ------------------------------------------------------------------------
\* get.go: CopyFileGroup
\*
\* Indices are 1-based here and 0-based in the code.
\* ------------------------------------------------------------------------

\* the worker ceiling of the two phases
WorkerCeiling == 4

\* C5, a changed ceiling: one more worker than the ceiling
OneMoreWorker == WorkerCeiling + 1

\* throttler.New(4, len(cloneList)) and throttler.New(4, len(locators))
cloneWorkers == 4
copyWorkers == 4

\* the locators a short batch is drawn from
Locators ==
    {"git+https://h/r@1111111#f",
     "git+https://h/r@2222222#f",
     "file:///a#f",
     "file:///b#f",
     "git+https://h/a:b@c#f",
     "git+https://h/a@b:c#d",
     "http://h/r#f",
     "git+https://down/r#f"}

\* short batches hold up to MaxBatch locators, long ones up to MaxLong
MaxBatch == 2
MaxLong == 5

\* the i-th locator of a long batch: one repository at i different commits
LongRevs == <<"1111111", "2222222", "3333333", "4444444", "5555555",
              "6666666", "7777777", "8888888", "9999999">>
\* the second asks for a path that is not in the tree, the third for a
\* directory
LongPath(i) == IF i = 2 THEN "x" ELSE IF i = 3 THEN "d" ELSE "f"
LongLocator(i) == "git+https://h/r@" \o LongRevs[i] \o "#" \o LongPath(i)

\* a long batch with one repository that cannot be cloned
LongFailing(i) == IF i = 2 THEN "git+https://down/r#f" ELSE LongLocator(i)

Batches ==
    UNION {[1..n -> Locators] : n \in 0..MaxBatch}
        \cup {[i \in 1..n |-> LongLocator(i)] : n \in (MaxBatch + 1)..MaxLong}
        \cup {[i \in 1..n |-> LongFailing(i)] : n \in (MaxBatch + 1)..MaxLong}

VARIABLES
    locators,    \* the locators argument
    writers,     \* what each writer of the writers argument has received
    dpc,         \* where the calling goroutine is
    idx,         \* the index of the plan loop
    cloneList,   \* map[string]*copyPlan
    ctask,       \* the clone goroutines, by plan key
    mutex,       \* <<>> when free, <<k>> when held by the clone task of k
    t,           \* the throttler of the clone phase
    t2,          \* the throttler of the copy phase
    curPlan,     \* <<>> or <<k>>, the plan the copy loop is ranging over
    ktask,       \* the copy goroutines, by index
    errs,        \* map[int]error
    ret,         \* what CopyFileGroup returned
    cloneCalls,  \* how many times CloneRepository was called, by plan key
    funcs,       \* the options the funcs argument of CopyFileGroup makes
    got,         \* what GetGroup returned, when it is the caller
    call,        \* a call of Parse, CloneRepository, CopyFile or Download:
                 \* the function, its locator and the options of its funcs
    failAt,      \* the step of that call at which the provider fails, if any
    spc,         \* where that call is
    frame,       \* its local variables
    provider,    \* the calls it has made to go-git and to GetAuthMethod
    result,      \* what it returned
    dest,        \* what it wrote: the writer w and the directory localDir
    pkg,         \* the package variables: defaultOptions and the regexps
    parsed,      \* the Parse calls made one after another, with their results
    racers,      \* the goroutines that call Parse at the same time
    owner        \* the goroutine that assigned each regexp variable last

groupVars == <<locators, writers, dpc, idx, cloneList, ctask, mutex, t, t2,
               curPlan, ktask, errs, ret, cloneCalls, funcs, got>>

callVars == <<call, failAt, spc, frame, provider, result, dest>>

pkgVars == <<pkg, parsed, racers, owner>>

vars == <<groupVars, callVars, pkgVars>>

\* regexp.MustCompile(pattern), and a regexp variable not yet assigned
Compiled(pattern) == pattern
NilRegexp == ""

\* the package after Parse has run once: the regexps are compiled
PackageLoaded ==
    [defaultOptions |-> defaultOptions,
     slugRegex |-> Compiled("^[-A-Za-z0-9_]+/[-A-Za-z0-9_]+$"),
     sha1Regex |-> Compiled("^[a-f0-9]{40}$"),
     sha1ShortRegex |-> Compiled("^[a-f0-9]{7}$")]

\* no goroutine has assigned a regexp variable
NoOwner == [slugRegex |-> 0, sha1Regex |-> 0, sha1ShortRegex |-> 0]

\* no Parse calls run at the same time
NoRacers ==
    /\ racers = <<>>
    /\ owner = NoOwner

\* no sequence of Parse calls is followed; the package is loaded
NoSequence ==
    /\ pkg = PackageLoaded
    /\ parsed = <<>>
    /\ NoRacers

\* the options a funcs argument can make
Funcs ==
    {defaultOptions,
     WithRefAsBranch(defaultOptions, TRUE),
     WithClonePath(defaultOptions, "/c"),
     WithSystemCredentials(defaultOptions, FALSE),
     WithHttpAuth(defaultOptions, "u", "p"),
     WithSystemCredentials(WithHttpAuth(defaultOptions, "u", "p"), FALSE)}

NotReturned == [kind |-> "running"]
ReturnNil == [kind |-> "nil"]
ReturnError(msg) == [kind |-> "error", msg |-> msg]
ReturnParseError(i) == [kind |-> "error", msg |-> "error parsing locator", index |-> i]
ReturnCloneError(es) == [kind |-> "error", msg |-> "error cloning repositories", errs |-> es]
ReturnErrorList(es) == [kind |-> "ErrorList", Errors |-> es]

EmptyMap == [k \in {} |-> 0]

IdleCopyTask == [pc |-> "idle", plan |-> "", path |-> "", err |-> NoErr, raced |-> FALSE]

\* how a Parse input is spelled; the other calls do not say
NoParts == [prefix |-> "", rest |-> "", token |-> "", fragment |-> ""]

\* what a call returned: nothing yet, a value, or an error
Running == [kind |-> "running", err |-> NoErr, fs |-> NoFS, components |-> NoComponents]
ReturnOK(fsobj, c) == [kind |-> "ok", err |-> NoErr, fs |-> fsobj, components |-> c]
ReturnErr(msg) == [kind |-> "error", err |-> msg, fs |-> NoFS, components |-> NoComponents]

\* the local variables of a call before it starts
NoFrame ==
    [components |-> NoComponents, cloned |-> NoComponents, reference |-> "",
     repourl |-> "", auth |-> NoAuth, commitHash |-> "", fsobj |-> NoFS]

\* no call of a single-locator function is under way: no arguments, no
\* locals, no result
NoCall ==
    /\ call = [op |-> ""]
    /\ failAt = ""
    /\ spc = "idle"
    /\ frame = <<>>
    /\ provider = <<>>
    /\ result = [kind |-> "running"]
    /\ dest = <<>>

\* a call of CopyFileGroup: any batch with the default options, and a
\* batch of one locator with any options; as many writers as locators, or
\* one more
Init ==
    /\ NoCall
    /\ NoSequence
    /\ got = NotReturned
    /\ locators \in Batches
    /\ funcs \in {o \in Funcs : o = defaultOptions \/ Len(locators) = 1}
    /\ \E n \in {Len(locators), Len(locators) + 1} : writers = [j \in 1..n |-> <<>>]
    /\ dpc = "start"
    /\ idx = 1
    /\ cloneList = EmptyMap
    /\ ctask = EmptyMap
    /\ mutex = <<>>
    /\ t = NoThrottler
    /\ t2 = NoThrottler
    /\ curPlan = <<>>
    /\ ktask = [i \in 1..Len(locators) |-> IdleCopyTask]
    /\ errs = EmptyMap
    /\ ret = NotReturned
    /\ cloneCalls = EmptyMap

\* C4, a changed key: the repository URL, the branch and the tag, without
\* the revision token
repostringBranchTag(components) ==
    RepoURL(components) \o ":" \o components.Branch \o ":" \o components.Tag

\* the key of the clone plan a locator's components belong to
repostring(components) == RepoURL(components) \o ":" \o components.RefString

\* a map with one more key
MapPut(m, k, v) == [x \in DOMAIN m \cup {k} |-> IF x = k THEN v ELSE m[x]]

\* C38, a changed entry: the numbers are not compared
writersNeverMismatch(ls, ws) == FALSE

\* len(locators) != len(writers)
writersMismatch(ls, ws) == Len(ls) # Len(ws)

\* the entry of CopyFileGroup
CheckWriters ==
    /\ dpc = "start"
    /\ IF writersMismatch(locators, writers)
       THEN /\ ret' = ReturnError("number of writers does not match the number of VCS locators")
            /\ dpc' = "done"
       ELSE /\ ret' = ret
            /\ dpc' = "plan"
    /\ UNCHANGED <<pkgVars, callVars, got, funcs, locators, writers, idx, cloneList, ctask, mutex, t, t2,
                   curPlan, ktask, errs, cloneCalls>>

\* every locator a batch can hold
AllLocators ==
    Locators \cup {LongLocator(i) : i \in 1..MaxLong}
             \cup {LongFailing(i) : i \in 1..MaxLong}

\* Locator(l).Parse() and CloneRepository(l) of CopyFileGroup, which pass no
\* options: the values for each locator, computed once
GroupParse == [l \in AllLocators |-> Parse(l, defaultOptions)]
GroupClone == [l \in AllLocators |-> CloneRepository(l, defaultOptions)]

\* C10, a changed plan loop: a locator that does not parse is skipped
PlanLocatorSkipping ==
    /\ dpc = "plan"
    /\ idx <= Len(locators)
    /\ LET l == locators[idx]
           p == GroupParse[l]
           key == RepoURL(p.c) \o ":" \o p.c.RefString
           plan == IF key \in DOMAIN cloneList THEN cloneList[key]
                   ELSE [Locator |-> l, Components |-> p.c, FS |-> NoFS,
                         Files |-> [k \in {} |-> 0]]
       IN  /\ cloneList' = IF p.err THEN cloneList
                           ELSE [x \in DOMAIN cloneList \cup {key} |->
                                   IF x # key THEN cloneList[x]
                                   ELSE [plan EXCEPT !.Files =
                                           [y \in DOMAIN plan.Files \cup {idx} |->
                                              IF y = idx THEN p.c.SubPath
                                              ELSE plan.Files[y]]]]
           /\ idx' = idx + 1
    /\ UNCHANGED <<pkgVars, callVars, got, funcs, locators, writers, dpc, ret, ctask, mutex, t, t2, curPlan,
                   ktask, errs, cloneCalls>>

\* C35, a changed plan loop: every locator makes a new plan for its key
planNeverKept(list, key) == FALSE

\* _, ok := cloneList[repostring]: the key has a plan already
planKept(list, key) == key \in DOMAIN list

\* one turn of the loop that builds the clone plan
PlanLocator ==
    /\ dpc = "plan"
    /\ idx <= Len(locators)
    /\ LET l == locators[idx]
           p == GroupParse[l]
           key == repostring(p.c)
           plan == IF planKept(cloneList, key) THEN cloneList[key]
                   ELSE [Locator |-> l, Components |-> p.c, FS |-> NoFS,
                         Files |-> EmptyMap]
       IN  IF p.err
           THEN /\ ret' = ReturnParseError(idx)
                /\ dpc' = "done"
                /\ UNCHANGED <<cloneList, idx>>
           ELSE /\ cloneList' = MapPut(cloneList, key,
                        [plan EXCEPT !.Files = MapPut(@, idx, p.c.SubPath)])
                /\ idx' = idx + 1
                /\ UNCHANGED <<ret, dpc>>
    /\ UNCHANGED <<pkgVars, callVars, got, funcs, locators, writers, ctask, mutex, t, t2, curPlan, ktask,
                   errs, cloneCalls>>

IdleCloneTask == [pc |-> "idle", fsobj |-> NoFS, err |-> NoErr]

\* the plan is built: throttler.New(4, len(cloneList))
StartClonePhase ==
    /\ dpc = "plan"
    /\ idx > Len(locators)
    /\ t' = NewThrottler(cloneWorkers, Cardinality(DOMAIN cloneList))
    /\ ctask' = [k \in DOMAIN cloneList |-> IdleCloneTask]
    /\ cloneCalls' = [k \in DOMAIN cloneList |-> 0]
    /\ dpc' = IF DOMAIN cloneList = {} THEN "cloneCheck" ELSE "cloneLoop"
    /\ UNCHANGED <<pkgVars, callVars, got, funcs, locators, writers, idx, cloneList, mutex, t2, curPlan,
                   ktask, errs, ret>>

\* C6, a changed Throttle: the last call does not wait for the workers
AfterThrottleNoDrain(th, phase) ==
    IF th.workerCount + 1 = th.maxWorkers THEN phase \o "Wait"
    ELSE IF th.jobsStarted + 1 = th.totalJobs THEN phase \o "Check"
    ELSE phase \o "Loop"

\* C32, a changed Throttle: the loop ends at the first reported error
AfterThrottleStopOnError(th, phase) ==
    IF th.errs # {} THEN phase \o "Check"
    ELSE IF ThrottleWaits(th) THEN phase \o "Wait"
    ELSE IF th.jobsStarted + 1 = th.totalJobs THEN phase \o "Drain"
    ELSE phase \o "Loop"

\* where the caller is after the first part of Throttle
AfterThrottle(th, phase) ==
    IF ThrottleWaits(th) THEN phase \o "Wait"
    ELSE IF th.jobsStarted + 1 = th.totalJobs THEN phase \o "Drain"
    ELSE phase \o "Loop"

\* where the caller is after Throttle's receive for a full pool
AfterWait(th, phase) ==
    IF th.jobsStarted = th.totalJobs
    THEN (IF th.workerCount > 0 THEN phase \o "Drain" ELSE phase \o "Check")
    ELSE phase \o "Loop"

\* C3, a changed clone loop: a plan whose clone failed is cloned again
clonePendingOrFailed ==
    {k \in DOMAIN cloneList :
        ctask[k].pc = "idle" \/ (ctask[k].pc = "done" /\ ctask[k].err # "")}

\* the plans the clone loop has not reached yet
clonePending == {k \in DOMAIN cloneList : ctask[k].pc = "idle"}

\* one turn of the clone loop: go func() {...}() and t.Throttle(), up to
\* the point where Throttle blocks.  The range is over a map: any order.
CloneSpawn(k) ==
    /\ dpc = "cloneLoop"
    /\ k \in clonePending
    /\ ctask' = [ctask EXCEPT ![k].pc = "cloning"]
    /\ cloneCalls' = [cloneCalls EXCEPT ![k] = @ + 1]
    /\ t' = ThrottleEnter(t)
    /\ dpc' = AfterThrottle(t, "clone")
    /\ UNCHANGED <<pkgVars, callVars, got, funcs, locators, writers, idx, cloneList, mutex, t2, curPlan,
                   ktask, errs, ret>>

\* Throttle: the pool is full, one completion is received
CloneWait ==
    /\ dpc = "cloneWait"
    /\ t.doneChan > 0
    /\ t' = ThrottleRecv(t)
    /\ dpc' = AfterWait(t, "clone")
    /\ UNCHANGED <<pkgVars, callVars, got, funcs, locators, writers, idx, cloneList, ctask, mutex, t2,
                   curPlan, ktask, errs, ret, cloneCalls>>

\* Throttle: every job is started, the counted workers are awaited
CloneDrain ==
    /\ dpc = "cloneDrain"
    /\ t.workerCount > 0
    /\ t.doneChan > 0
    /\ t' = ThrottleDrainOne(t)
    /\ dpc' = IF t.workerCount = 1 THEN "cloneCheck" ELSE "cloneDrain"
    /\ UNCHANGED <<pkgVars, callVars, got, funcs, locators, writers, idx, cloneList, ctask, mutex, t2,
                   curPlan, ktask, errs, ret, cloneCalls>>

\* a clone goroutine: CloneRepository(copyplan.Locator) returns
CloneReturn(k) ==
    /\ dpc \notin {"done", "crashed"}
    /\ ctask[k].pc = "cloning"
    /\ LET res == GroupClone[cloneList[k].Locator]
       IN  ctask' = [ctask EXCEPT ![k] = [pc |-> "lock", fsobj |-> res.fs,
                                          err |-> res.err]]
    /\ UNCHANGED <<pkgVars, callVars, got, funcs, locators, writers, dpc, idx, cloneList, mutex, t, t2,
                   curPlan, ktask, errs, ret, cloneCalls>>

\* a clone goroutine: mutex.Lock()
CloneLock(k) ==
    /\ dpc \notin {"done", "crashed"}
    /\ ctask[k].pc = "lock"
    /\ mutex = <<>>
    /\ mutex' = <<k>>
    /\ ctask' = [ctask EXCEPT ![k].pc = "locked"]
    /\ UNCHANGED <<pkgVars, callVars, got, funcs, locators, writers, dpc, idx, cloneList, t, t2, curPlan,
                   ktask, errs, ret, cloneCalls>>

\* C31, a changed clone goroutine: the mutex is kept after the store
heldAfterStore(k) == <<k>>

\* mutex.Unlock() right after the store
unlockAfterStore(k) == <<>>

\* a clone goroutine: cloneList[repostring].FS = fsobj; mutex.Unlock()
CloneStore(k) ==
    /\ dpc \notin {"done", "crashed"}
    /\ ctask[k].pc = "locked"
    /\ mutex = <<k>>
    /\ cloneList' = [cloneList EXCEPT ![k].FS = ctask[k].fsobj]
    /\ mutex' = unlockAfterStore(k)
    /\ ctask' = [ctask EXCEPT ![k].pc = "report"]
    /\ UNCHANGED <<pkgVars, callVars, got, funcs, locators, writers, dpc, idx, t, t2, curPlan, ktask, errs,
                   ret, cloneCalls>>

\* C7, a changed clone goroutine: t.Done(nil) whatever the clone returned
CloneTaskErrorDropped(k) == ""

\* the error a clone goroutine reports: fmt.Errorf("reading %q: %w", ...)
CloneTaskError(k) ==
    IF ctask[k].err = NoErr THEN NoErr
    ELSE "reading " \o cloneList[k].Locator \o ": " \o ctask[k].err

\* a clone goroutine: t.Done(err)
CloneDone(k) ==
    /\ dpc \notin {"done", "crashed"}
    /\ ctask[k].pc = "report"
    /\ t' = ThrottleDone(t, CloneTaskError(k))
    /\ ctask' = [ctask EXCEPT ![k].pc = "done"]
    /\ UNCHANGED <<pkgVars, callVars, got, funcs, locators, writers, dpc, idx, cloneList, mutex, t2,
                   curPlan, ktask, errs, ret, cloneCalls>>

\* t.Err() after the clone loop; then errs and throttler.New(4, len(locators))
CloneCheck ==
    /\ dpc = "cloneCheck"
    /\ IF t.errs # {}
       THEN /\ ret' = ReturnCloneError(t.errs)
            /\ dpc' = "done"
            /\ t2' = t2
       ELSE /\ ret' = ret
            /\ t2' = NewThrottler(copyWorkers, Len(locators))
            /\ dpc' = IF DOMAIN cloneList = {} THEN "copyCheck" ELSE "copyLoop"
    /\ UNCHANGED <<pkgVars, callVars, got, funcs, locators, writers, idx, cloneList, ctask, mutex, t,
                   curPlan, ktask, errs, cloneCalls>>

\* the indices of a plan the copy loop has not reached yet
copyPending(k) == {i \in DOMAIN cloneList[k].Files : ktask[i].pc = "idle"}

\* one turn of the copy loops: go func() {...}() and t2.Throttle(), up to
\* the point where Throttle blocks.  Both ranges are over maps: the plans
\* come in any order, and the indices of a plan in any order, but all the
\* indices of a plan come before the next plan.
CopySpawn(k, i) ==
    /\ dpc = "copyLoop"
    /\ k \in DOMAIN cloneList
    /\ i \in copyPending(k)
    /\ \/ curPlan = <<k>>
       \/ curPlan = <<>>
       \/ (curPlan # <<>> /\ copyPending(curPlan[1]) = {})
    /\ curPlan' = <<k>>
    /\ ktask' = [ktask EXCEPT ![i] = [IdleCopyTask EXCEPT !.pc = "io", !.plan = k,
                                          !.path = cloneList[k].Files[i]]]
    /\ t2' = ThrottleEnter(t2)
    /\ dpc' = AfterThrottle(t2, "copy")
    /\ UNCHANGED <<pkgVars, callVars, got, funcs, locators, writers, idx, cloneList, ctask, mutex, t, errs,
                   ret, cloneCalls>>

\* Throttle: the pool is full, one completion is received
CopyWait ==
    /\ dpc = "copyWait"
    /\ t2.doneChan > 0
    /\ t2' = ThrottleRecv(t2)
    /\ dpc' = AfterWait(t2, "copy")
    /\ UNCHANGED <<pkgVars, callVars, got, funcs, locators, writers, idx, cloneList, ctask, mutex, t,
                   curPlan, ktask, errs, ret, cloneCalls>>

\* Throttle: every job is started, the counted workers are awaited
CopyDrain ==
    /\ dpc = "copyDrain"
    /\ t2.workerCount > 0
    /\ t2.doneChan > 0
    /\ t2' = ThrottleDrainOne(t2)
    /\ dpc' = IF t2.workerCount = 1 THEN "copyCheck" ELSE "copyDrain"
    /\ UNCHANGED <<pkgVars, callVars, got, funcs, locators, writers, idx, cloneList, ctask, mutex, t,
                   curPlan, ktask, errs, ret, cloneCalls>>

\* the copy goroutines that are in the middle of writing errs[i]
mapWriters == {j \in DOMAIN ktask : ktask[j].pc = "mapwrite"}

\* C37, a changed copy goroutine: every task writes to the first writer
writerFirst(i) == 1

\* writers[i]: the writer the copy task of index i writes to
writerOf(i) == i

\* a copy goroutine: copyplan.FS.Open(path) and io.Copy(writers[i], f)
\* return.  On success the file is in the writer and t2.Done(nil) is
\* called; on failure the goroutine starts writing errs[i], and that
\* write races with every other write of errs that is under way.
\* Opening a nil filesystem is a nil dereference: the process dies.
CopyIO(i) ==
    /\ dpc \notin {"done", "crashed"}
    /\ ktask[i].pc = "io"
    /\ LET fsobj == cloneList[ktask[i].plan].FS
           path == ktask[i].path
           racing == mapWriters # {}
       IN  IF fsobj.nil
           THEN /\ dpc' = "crashed"
                /\ UNCHANGED <<writers, ktask, t2>>
           ELSE IF ~OpenOK(path)
           THEN /\ ktask' = [j \in DOMAIN ktask |->
                               IF j = i
                               THEN [ktask[j] EXCEPT !.pc = "mapwrite",
                                                     !.err = "opening path",
                                                     !.raced = racing]
                               ELSE IF j \in mapWriters
                               THEN [ktask[j] EXCEPT !.raced = TRUE]
                               ELSE ktask[j]]
                /\ UNCHANGED <<writers, t2, dpc>>
           ELSE IF ~CopyOK(path)
           THEN /\ writers' = [writers EXCEPT
                                 ![writerOf(i)] = Append(@, FileContent(fsobj, path, FALSE))]
                /\ ktask' = [j \in DOMAIN ktask |->
                               IF j = i
                               THEN [ktask[j] EXCEPT !.pc = "mapwrite",
                                                     !.err = "copying data stream",
                                                     !.raced = racing]
                               ELSE IF j \in mapWriters
                               THEN [ktask[j] EXCEPT !.raced = TRUE]
                               ELSE ktask[j]]
                /\ UNCHANGED <<t2, dpc>>
           ELSE /\ writers' = [writers EXCEPT
                                 ![writerOf(i)] = Append(@, FileContent(fsobj, path, TRUE))]
                /\ ktask' = [ktask EXCEPT ![i].pc = "done"]
                /\ t2' = ThrottleDone(t2, NoErr)
                /\ dpc' = dpc
    /\ UNCHANGED <<pkgVars, callVars, got, funcs, locators, idx, cloneList, ctask, mutex, t, curPlan, errs,
                   ret, cloneCalls>>

\* a copy goroutine: the write of errs[i] ends, then t2.Done(nil).  errs is
\* a plain map written without a lock: a write that overlapped another one
\* is a data race, after which the entry is in the map, or is lost.
CopyRecord(i) ==
    /\ dpc \notin {"done", "crashed"}
    /\ ktask[i].pc = "mapwrite"
    /\ \/ errs' = MapPut(errs, i, ktask[i].err)
       \/ ktask[i].raced /\ errs' = errs
    /\ ktask' = [ktask EXCEPT ![i].pc = "done"]
    /\ t2' = ThrottleDone(t2, NoErr)
    /\ UNCHANGED <<pkgVars, callVars, got, funcs, locators, writers, dpc, idx, cloneList, ctask, mutex, t,
                   curPlan, ret, cloneCalls>>

\* the Go runtime finds two writes of errs under way and ends the process
\* ("fatal error: concurrent map writes")
CopyRaceFatal(i) ==
    /\ dpc \notin {"done", "crashed"}
    /\ ktask[i].pc = "mapwrite"
    /\ ktask[i].raced
    /\ dpc' = "crashed"
    /\ UNCHANGED <<pkgVars, callVars, got, funcs, locators, writers, idx, cloneList, ctask, mutex, t, t2,
                   curPlan, ktask, errs, ret, cloneCalls>>

\* the positional error list built from errs
ErrorList == [i \in 1..Len(locators) |-> IF i \in DOMAIN errs THEN errs[i] ELSE NoErr]

\* after the copy loops: len(errs) != 0
CopyCheck ==
    /\ dpc = "copyCheck"
    /\ ret' = IF DOMAIN errs # {} THEN ReturnErrorList(ErrorList) ELSE ReturnNil
    /\ dpc' = "done"
    /\ UNCHANGED <<pkgVars, callVars, got, funcs, locators, writers, idx, cloneList, ctask, mutex, t, t2,
                   curPlan, ktask, errs, cloneCalls>>

\* GetGroup gave CopyFileGroup one buffer for each locator and no options
GetGroupCalled == Len(writers) = Len(locators) /\ funcs = defaultOptions

\* GetGroup returning the error of CopyFileGroup and no data
GetGroupError == [kind |-> "error", data |-> <<>>]

\* GetGroup returning the bytes of the buffers
GetGroupData(buffers) == [kind |-> "ok", data |-> buffers]

\* GetGroup after CopyFileGroup has returned: nil and the error, or the
\* bytes of the buffers in their order and nil
GetGroupReturn ==
    /\ GetGroupCalled
    /\ dpc = "done"
    /\ got = NotReturned
    /\ got' = IF ret # ReturnNil THEN GetGroupError ELSE GetGroupData(writers)
    /\ UNCHANGED <<pkgVars, callVars, funcs, locators, writers, dpc, idx, cloneList,
                   ctask, mutex, t, t2, curPlan, ktask, errs, ret, cloneCalls>>

Next ==
    \/ CheckWriters
    \/ PlanLocator
    \/ StartClonePhase
    \/ \E k \in DOMAIN cloneList : CloneSpawn(k)
    \/ CloneWait
    \/ CloneDrain
    \/ \E k \in DOMAIN ctask : CloneReturn(k)
    \/ \E k \in DOMAIN ctask : CloneLock(k)
    \/ \E k \in DOMAIN ctask : CloneStore(k)
    \/ \E k \in DOMAIN ctask : CloneDone(k)
    \/ CloneCheck
    \/ \E k \in DOMAIN cloneList, i \in DOMAIN ktask : CopySpawn(k, i)
    \/ CopyWait
    \/ CopyDrain
    \/ \E i \in DOMAIN ktask : CopyIO(i)
    \/ \E i \in DOMAIN ktask : CopyRecord(i)
    \/ \E i \in DOMAIN ktask : CopyRaceFatal(i)
    \/ CopyCheck
    \/ GetGroupReturn

Spec == Init /\ [][Next]_vars


\* the goroutines of CopyFileGroup are scheduled: as long as the caller or
\* one of its tasks can take a step, a step is taken
LiveSpec == Init /\ [][Next]_vars /\ WF_vars(Next)

\* ------------------------------------------------------------------------
\* get.go: CopyFile and Download; locator.go: CloneRepository, step by
\* step, with a provider that can fail at one chosen step
\* ------------------------------------------------------------------------

\* the locators of the single-locator calls
CallLocators ==
    {"git+https://h/r@main#f",
     "git+https://h/r@1111111#f",
     "git+https://h/r@refs/heads/dev#d/x",
     "git+https://h/r@refs/notes/commits#f",
     "git+https://h/r#d",
     "git+https://h/r@v1",
     "git+ssh://h/r@v1#f",
     "file:///a@v1#x",
     "https://h/r#f",
     "hg+https://h/r@v1#f",
     "http://h/r#f",
     "git+https://down/r#f"}

\* the steps at which the provider can be made to fail
FailPoints ==
    {"", "GetAuthMethod", "Clone", "Fetch", "Reference", "ResolveRevision",
     "Worktree", "Checkout", "Open", "Copy"}

\* no CopyFileGroup call is running
NoGroup ==
    /\ locators = <<>>
    /\ writers = <<>>
    /\ dpc = "none"
    /\ idx = 1
    /\ cloneList = EmptyMap
    /\ ctask = EmptyMap
    /\ mutex = <<>>
    /\ t = NoThrottler
    /\ t2 = NoThrottler
    /\ curPlan = <<>>
    /\ ktask = <<>>
    /\ errs = EmptyMap
    /\ ret = NotReturned
    /\ cloneCalls = EmptyMap
    /\ funcs = defaultOptions
    /\ got = NotReturned

CallInit ==
    /\ NoGroup
    /\ NoSequence
    /\ \E op \in {"CloneRepository", "CopyFile", "Download"},
          l \in CallLocators, o \in Funcs :
          call = [op |-> op, locator |-> l, opts |-> o, parts |-> NoParts]
    /\ failAt \in FailPoints
    /\ spc = "start"
    /\ frame = NoFrame
    /\ provider = <<>>
    /\ result = Running
    /\ dest = [w |-> <<>>, localDir |-> {}]

\* a call to the provider or to GetAuthMethod, as the log keeps it
ProviderCall(fn, arg) ==
    [fn |-> fn, arg |-> arg, URL |-> "", Auth |-> NoAuth, ReferenceName |-> "",
     ClonePath |-> ""]

\* git.Clone(memory.NewStorage(), fsobj, &git.CloneOptions{...})
GitCloneCall(url, auth, reference, clonePath) ==
    [fn |-> "Clone", arg |-> "", URL |-> url, Auth |-> auth,
     ReferenceName |-> reference, ClonePath |-> clonePath]

\* a caller of CloneRepository wraps its error
CloneError(msg) ==
    IF call.op = "CloneRepository" THEN ReturnErr(msg)
    ELSE ReturnErr("cloning repository: " \o msg)

\* CopyFile and Download going on without a subpath
subPathNeverMissing(components) == FALSE

\* CopyFile and Download ask for a subpath
subPathMissing(components) == components.SubPath = ""

\* CopyFile, up to the call of CloneRepository
CopyFileParse ==
    /\ call.op = "CopyFile"
    /\ spc = "start"
    /\ \E p \in {Parse(call.locator, call.opts)} :
          IF p.err
          THEN result' = ReturnErr("parsing locator") /\ spc' = "done" /\ frame' = frame
          ELSE IF subPathMissing(p.c)
          THEN /\ result' = ReturnErr("locator has no subpath defined")
               /\ spc' = "done"
               /\ frame' = frame
          ELSE /\ frame' = [frame EXCEPT !.components = p.c]
               /\ spc' = "clone"
               /\ result' = result
    /\ UNCHANGED <<pkgVars, groupVars, call, failAt, provider, dest>>

\* Download, up to the call of CloneRepository
DownloadParse ==
    /\ call.op = "Download"
    /\ spc = "start"
    /\ \E p \in {Parse(call.locator, call.opts)} :
          IF p.err
          THEN result' = ReturnErr("parsing locator") /\ spc' = "done" /\ frame' = frame
          ELSE IF subPathMissing(p.c)
          THEN /\ result' = ReturnErr("locator has no subpath defined")
               /\ spc' = "done"
               /\ frame' = frame
          ELSE /\ frame' = [frame EXCEPT !.components = p.c]
               /\ spc' = "clone"
               /\ result' = result
    /\ UNCHANGED <<pkgVars, groupVars, call, failAt, provider, dest>>

\* CloneRepository is entered: called itself, or from CopyFile or Download
CloneEntered ==
    \/ call.op = "CloneRepository" /\ spc = "start"
    \/ call.op \in {"CopyFile", "Download"} /\ spc = "clone"

\* CloneRepository: l.Parse(), the tool, the reference, the filesystem and
\* the URL to clone
CRParse ==
    /\ CloneEntered
    /\ \E p \in {Parse(call.locator, defaultOptions)} :
          IF p.err
          THEN result' = CloneError("parsing locator") /\ spc' = "done" /\ frame' = frame
          ELSE IF ~toolSupported(p.c)
          THEN /\ result' = CloneError("only git locators are supported for cloning")
               /\ spc' = "done"
               /\ frame' = frame
          ELSE /\ frame' = [frame EXCEPT !.cloned = p.c,
                                         !.reference = CloneReference(p.c),
                                         !.repourl = CloneURL(p.c)]
               /\ spc' = IF readsCredentials(call.opts) THEN "auth" ELSE "gitClone"
               /\ result' = result
    /\ UNCHANGED <<pkgVars, groupVars, call, failAt, provider, dest>>

\* CloneRepository: auth, err = GetAuthMethod(l)
CRAuth ==
    /\ spc = "auth"
    /\ provider' = Append(provider, ProviderCall("GetAuthMethod", call.locator))
    /\ \E a \in {GetAuthMethod(call.locator, defaultOptions, failAt # "GetAuthMethod")} :
          IF a.err # NoErr
          THEN /\ result' = CloneError("getting git auth method")
               /\ spc' = "done"
               /\ frame' = frame
          ELSE /\ frame' = [frame EXCEPT !.auth = a.auth]
               /\ spc' = "gitClone"
               /\ result' = result
    /\ UNCHANGED <<pkgVars, groupVars, call, failAt, dest>>

\* C33, a changed condition: every revision that is not a commit is fetched
\* after the clone
lateFetchUnlessCommit(c, reference) == c.Commit = "" /\ c.RefString # ""

\* the reference was not cloned and has to be fetched after the clone
lateFetch(c, reference) ==
    reference = "" /\ c.Commit = "" /\ c.RefString # "" /\ c.RefString # c.Commit

\* CloneRepository: git.Clone
CRClone ==
    /\ spc = "gitClone"
    /\ provider' = Append(provider,
          GitCloneCall(frame.repourl, frame.auth, frame.reference, call.opts.ClonePath))
    /\ IF failAt = "Clone" \/ ~Reachable(frame.repourl)
       THEN /\ result' = CloneError("cloning repo")
            /\ spc' = "done"
            /\ frame' = frame
       ELSE /\ frame' = [frame EXCEPT !.commitHash = frame.cloned.Commit]
            /\ spc' = IF lateFetch(frame.cloned, frame.reference) THEN "fetch"
                      ELSE IF frame.cloned.Commit # "" THEN "worktree"
                      ELSE "return"
            /\ result' = result
    /\ UNCHANGED <<pkgVars, groupVars, call, failAt, dest>>

\* C34, a changed step: the error of the provider call is ignored
LateFetchStepIgnoringError(at, fn, arg, msg, next) ==
    /\ spc = at
    /\ provider' = Append(provider, ProviderCall(fn, arg))
    /\ result' = result
    /\ spc' = next

\* one step of the late fetch: the provider call fn, its error and the
\* place to go on at
LateFetchStep(at, fn, arg, msg, next) ==
    /\ spc = at
    /\ provider' = Append(provider, ProviderCall(fn, arg))
    /\ IF failAt = fn
       THEN result' = CloneError(msg) /\ spc' = "done"
       ELSE result' = result /\ spc' = next

\* CloneRepository: repo.Fetch of the reference
CRFetch ==
    /\ LateFetchStep("fetch", "Fetch",
                     frame.cloned.RefString \o ":" \o frame.cloned.RefString,
                     "late fetching ref", "reference")
    /\ UNCHANGED <<pkgVars, groupVars, call, failAt, frame, dest>>

\* CloneRepository: repo.Reference
CRReference ==
    /\ LateFetchStep("reference", "Reference", frame.cloned.RefString,
                     "resolving reference", "resolve")
    /\ UNCHANGED <<pkgVars, groupVars, call, failAt, frame, dest>>

\* CloneRepository: repo.ResolveRevision; commitHash = hach.String()
CRResolveRevision ==
    /\ LateFetchStep("resolve", "ResolveRevision", frame.cloned.RefString,
                     "resolving latest revision", "worktree")
    /\ frame' = IF failAt = "ResolveRevision" THEN frame
                ELSE [frame EXCEPT !.commitHash = CheckoutCommit(frame.cloned)]
    /\ UNCHANGED <<pkgVars, groupVars, call, failAt, dest>>

\* CloneRepository: repo.Worktree()
CRWorktree ==
    /\ LateFetchStep("worktree", "Worktree", "", "getting repository worktree",
                     "checkout")
    /\ UNCHANGED <<pkgVars, groupVars, call, failAt, frame, dest>>

\* CloneRepository: wt.Checkout of commitHash
CRCheckout ==
    /\ LateFetchStep("checkout", "Checkout", frame.commitHash,
                     "checking out commit", "return")
    /\ UNCHANGED <<pkgVars, groupVars, call, failAt, frame, dest>>

\* the filesystem CloneRepository returns
ClonedFS ==
    [url |-> frame.repourl, reference |-> frame.reference,
     commit |-> frame.commitHash, auth |-> frame.auth,
     clonePath |-> call.opts.ClonePath, nil |-> FALSE]

\* CloneRepository: return iofs.New(fsobj), nil
CRReturn ==
    /\ spc = "return"
    /\ frame' = [frame EXCEPT !.fsobj = ClonedFS]
    /\ IF call.op = "CloneRepository"
       THEN result' = ReturnOK(ClonedFS, frame.cloned) /\ spc' = "done"
       ELSE result' = result /\ spc' = IF call.op = "CopyFile" THEN "open" ELSE "walk"
    /\ UNCHANGED <<pkgVars, groupVars, call, failAt, provider, dest>>

\* CopyFile: fsobj.Open(components.SubPath)
CopyFileOpen ==
    /\ spc = "open"
    /\ IF failAt = "Open" \/ ~OpenOK(frame.components.SubPath)
       THEN result' = ReturnErr("opening file") /\ spc' = "done"
       ELSE result' = result /\ spc' = "copy"
    /\ UNCHANGED <<pkgVars, groupVars, call, failAt, frame, provider, dest>>

\* CopyFile: io.Copy(w, f)
CopyFileCopy ==
    /\ spc = "copy"
    /\ IF failAt = "Copy" \/ ~CopyOK(frame.components.SubPath)
       THEN /\ result' = ReturnErr("copying data stream")
            /\ dest' = [dest EXCEPT !.w = Append(@,
                          FileContent(frame.fsobj, frame.components.SubPath, FALSE))]
       ELSE /\ result' = ReturnOK(NoFS, frame.components)
            /\ dest' = [dest EXCEPT !.w = Append(@,
                          FileContent(frame.fsobj, frame.components.SubPath, TRUE))]
    /\ spc' = "done"
    /\ UNCHANGED <<pkgVars, groupVars, call, failAt, frame, provider>>

\* the files fs.WalkDir visits that Download copies
downloaded(components) ==
    {path \in RegularFiles :
        HasPrefix(path, TrimPrefix(components.SubPath, "/"))}

\* Download: the walk of the tree.  A failing open or copy ends the walk at
\* the first file to copy; a failed copy leaves that file created.
DownloadWalk ==
    /\ spc = "walk"
    /\ LET files == downloaded(frame.components)
           first == CHOOSE path \in files : TRUE
       IN  IF files # {} /\ failAt = "Open"
           THEN result' = ReturnErr("opening file from source") /\ dest' = dest
           ELSE IF files # {} /\ failAt = "Copy"
           THEN /\ result' = ReturnErr("copying data stream")
                /\ dest' = [dest EXCEPT !.localDir =
                              {[path |-> first,
                                content |-> FileContent(frame.fsobj, first, FALSE)]}]
           ELSE /\ result' = ReturnOK(NoFS, frame.components)
                /\ dest' = [dest EXCEPT !.localDir =
                              {[path |-> path,
                                content |-> FileContent(frame.fsobj, path, TRUE)] :
                                  path \in files}]
    /\ spc' = "done"
    /\ UNCHANGED <<pkgVars, groupVars, call, failAt, frame, provider>>

CallNext ==
    \/ CopyFileParse
    \/ DownloadParse
    \/ CRParse
    \/ CRAuth
    \/ CRClone
    \/ CRFetch
    \/ CRReference
    \/ CRResolveRevision
    \/ CRWorktree
    \/ CRCheckout
    \/ CRReturn
    \/ CopyFileOpen
    \/ CopyFileCopy
    \/ DownloadWalk

CallSpec == CallInit /\ [][CallNext]_vars

\* ------------------------------------------------------------------------
\* locator.go: Locator.Parse applied to locators spelled from parts
\* <prefix><rest>[@<token>][#<fragment>]
\* ------------------------------------------------------------------------

\* the text up to the host name or the path
Prefixes ==
    {"", "//", "file://", "FILE://", "https://", "HTTPS://", "ssh://", "http://",
     "git+https://", "git+ssh://", "git+file://", "git+ftp://", "git+://",
     "hg+https://"}

\* host name and path, or path alone
Rests ==
    {"", "h", "h/r", "A-b/c_9", "h/r.x", "/a/b", "u@h/r", "u:p@h:80/r", "h/r%40s"}

\* the revision with its '@'
Tokens ==
    {"", "@", "@v1", "@refs/heads/main", "@refs/tags/v1", "@refs/notes/commits",
     "@1234567", "@1234567890abcdef1234567890abcdef12345678", "@ABCDEF1",
     "@12345678", "@123456", "@123456g", "@refs/heads/1234567",
     "@1234567890abcdef1234567890abcdef123456789", "@a@b"}

\* the subpath with its '#'
Fragments == {"", "#f", "#d%2Fx@y"}

Compose(parts) == parts.prefix \o parts.rest \o parts.token \o parts.fragment

ParseInit ==
    /\ NoGroup
    /\ NoSequence
    /\ \E prefix \in Prefixes, rest \in Rests, token \in Tokens,
          fragment \in Fragments, sino \in BOOLEAN :
          \E parts \in {[prefix |-> prefix, rest |-> rest, token |-> token,
                         fragment |-> fragment]} :
              call = [op |-> "Parse", locator |-> Compose(parts),
                      opts |-> WithRefAsBranch(defaultOptions, sino),
                      parts |-> parts]
    /\ failAt = ""
    /\ spc = "start"
    /\ frame = NoFrame
    /\ provider = <<>>
    /\ result = Running
    /\ dest = [w |-> <<>>, localDir |-> {}]

\* components, err := Locator(locator).Parse(funcs...)
ParseCall ==
    /\ call.op = "Parse"
    /\ spc = "start"
    /\ \E p \in {Parse(call.locator, call.opts)} :
          result' = IF p.err THEN ReturnErr("parsing locator")
                    ELSE ReturnOK(NoFS, p.c)
    /\ spc' = "done"
    /\ UNCHANGED <<pkgVars, groupVars, call, failAt, frame, provider, dest>>

ParseNext == ParseCall

ParseSpec == ParseInit /\ [][ParseNext]_vars

\* ------------------------------------------------------------------------
\* locator.go: Locator.Parse called again and again in one process, with
\* the package variables it reads and assigns
\* ------------------------------------------------------------------------

\* how many Parse calls are followed
MaxCalls == 3

\* the locators parsed again and again
RepeatLocators ==
    {"", "h/r@v1", "git+https://h/r@1234567#f", "http://h/r", "file://@v1"}

\* the funcs arguments: none, or WithRefAsBranch(true)
FuncLists == {<<>>, <<[fn |-> "WithRefAsBranch", sino |-> TRUE]>>}

\* for _, fn := range funcs { fn(&opts) }
RECURSIVE ApplyFuncs(_, _)
ApplyFuncs(fns, o) ==
    IF fns = <<>> THEN o
    ELSE ApplyFuncs(Tail(fns), WithRefAsBranch(o, Head(fns).sino))

\* the package after the process has started: nothing is compiled
PackageStarted ==
    [defaultOptions |-> defaultOptions, slugRegex |-> NilRegexp,
     sha1Regex |-> NilRegexp, sha1ShortRegex |-> NilRegexp]

RepeatInit ==
    /\ NoGroup
    /\ NoCall
    /\ NoRacers
    /\ pkg = PackageStarted
    /\ parsed = <<>>

\* an option function writing to the package variable instead of the copy
optionsShared(package, local) == local

\* opts := defaultOptions is a copy: the option functions write to opts and
\* the package variable stays as it was
optionsOfPackage(package, local) == package

\* Parse gets as far as the slug regexp: the locator is not empty and
\* url.Parse takes it
reachesSlugRegex(l) ==
    l # "" /\ urlParse(TrimPrefix(l, TransportFile \o "://")).ok

\* Parse gets as far as parseRefString: in the slug shortcut, or after the
\* transport is accepted
reachesParseRefString(l) ==
    /\ reachesSlugRegex(l)
    /\ With(urlParse(TrimPrefix(l, TransportFile \o "://")), LAMBDA u :
          \/ /\ Hostname(u.Host) = "" /\ u.Scheme = "" /\ u.Path # ""
             /\ slugRegex(Cut(u.Path, "@")[1])
          \/ HasPrefix(l, TransportFile \o "://")
          \/ Cut(u.Scheme, "+")[3]
          \/ u.Scheme \in supportedTransports)

\* if re == nil { re = regexp.MustCompile(pattern) }
compileOnce(re, pattern) == IF re = NilRegexp THEN Compiled(pattern) ELSE re

\* one more call Locator(l).Parse(funcs...)
ParseAgain ==
    /\ Len(parsed) < MaxCalls
    /\ \E l \in RepeatLocators, fns \in FuncLists :
          \E opts \in {ApplyFuncs(fns, pkg.defaultOptions)} :
             /\ parsed' = Append(parsed,
                   [locator |-> l, funcs |-> fns, outcome |-> Parse(l, opts)])
             /\ pkg' =
                   [defaultOptions |-> optionsOfPackage(pkg.defaultOptions, opts),
                    slugRegex |->
                        IF reachesSlugRegex(l)
                        THEN compileOnce(pkg.slugRegex, PackageLoaded.slugRegex)
                        ELSE pkg.slugRegex,
                    sha1Regex |->
                        IF reachesParseRefString(l)
                        THEN compileOnce(pkg.sha1Regex, PackageLoaded.sha1Regex)
                        ELSE pkg.sha1Regex,
                    sha1ShortRegex |->
                        IF reachesParseRefString(l)
                        THEN compileOnce(pkg.sha1ShortRegex,
                                         PackageLoaded.sha1ShortRegex)
                        ELSE pkg.sha1ShortRegex]
    /\ UNCHANGED <<groupVars, callVars, racers, owner>>

RepeatNext == ParseAgain

RepeatSpec == RepeatInit /\ [][RepeatNext]_vars

\* ------------------------------------------------------------------------
\* locator.go: Locator.Parse called by several goroutines at the same time
\* in a process that has compiled nothing yet.  The regexp variables are
\* read and assigned without synchronisation.
\* ------------------------------------------------------------------------

\* how many goroutines call Parse
MaxRacers == 2
Goroutines == 1..MaxRacers

\* the locators they parse
RaceLocators == {"", "h/r@v1", "git+https://h/r@1234567#f", "http://h/r"}

NotParsed == [kind |-> "running"]
ParsedAs(p) == [kind |-> "parsed", value |-> p]
\* a method of a Regexp whose fields are not visible yet: a panic or any
\* answer
UndefinedParse == [kind |-> "undefined"]

RaceInit ==
    /\ NoGroup
    /\ NoCall
    /\ pkg = PackageStarted
    /\ parsed = <<>>
    /\ owner = NoOwner
    /\ racers \in [Goroutines ->
                     {[pc |-> "start", locator |-> l, outcome |-> NotParsed] :
                         l \in RaceLocators}]

\* the Regexp whose pointer a goroutine read although the goroutine that
\* compiled it has not synchronised with it: its fields may not be there
RawRegexp == "raw"

\* what goroutine g can find behind the regexp variable: the regexp it
\* compiled itself, or the one of another goroutine, published by a plain
\* assignment
readsRegexp(g, name) ==
    IF owner[name] = g THEN {pkg[name]} ELSE {pkg[name], RawRegexp}

\* Parse up to the slug regexp: the empty locator and the locator url.Parse
\* refuses return before
RaceStart(g) ==
    /\ racers[g].pc = "start"
    /\ racers' = [racers EXCEPT ![g] =
                    IF reachesSlugRegex(racers[g].locator)
                    THEN [@ EXCEPT !.pc = "slugCheck"]
                    ELSE [@ EXCEPT !.pc = "done",
                                   !.outcome = ParsedAs(Parse(racers[g].locator, defaultOptions))]]
    /\ UNCHANGED <<groupVars, callVars, pkg, parsed, owner>>

\* if slugRegex == nil
RaceSlugCheck(g) ==
    /\ racers[g].pc = "slugCheck"
    /\ racers' = [racers EXCEPT ![g].pc =
                    IF pkg.slugRegex = NilRegexp THEN "slugSet" ELSE "slugUse"]
    /\ UNCHANGED <<groupVars, callVars, pkg, parsed, owner>>

\* slugRegex = regexp.MustCompile(slugRegexPattern)
RaceSlugSet(g) ==
    /\ racers[g].pc = "slugSet"
    /\ pkg' = [pkg EXCEPT !.slugRegex = Compiled(PackageLoaded.slugRegex)]
    /\ owner' = [owner EXCEPT !.slugRegex = g]
    /\ racers' = [racers EXCEPT ![g].pc = "slugUse"]
    /\ UNCHANGED <<groupVars, callVars, parsed>>

\* the locator has no host and no scheme: slugRegex.MatchString(path)
usesSlugRegex(l) ==
    With(urlParse(TrimPrefix(l, TransportFile \o "://")), LAMBDA u :
        Hostname(u.Host) = "" /\ u.Scheme = "" /\ u.Path # "")

\* Parse from the slug test to parseRefString, or to its return
RaceSlugUse(g) ==
    /\ racers[g].pc = "slugUse"
    /\ \E re \in (IF usesSlugRegex(racers[g].locator)
                  THEN readsRegexp(g, "slugRegex") ELSE {pkg.slugRegex}) :
          racers' = [racers EXCEPT ![g] =
                       IF re = RawRegexp
                       THEN [@ EXCEPT !.pc = "done", !.outcome = UndefinedParse]
                       ELSE IF reachesParseRefString(racers[g].locator)
                       THEN [@ EXCEPT !.pc = "shaCheck"]
                       ELSE [@ EXCEPT !.pc = "done",
                                      !.outcome = ParsedAs(Parse(racers[g].locator, defaultOptions))]]
    /\ UNCHANGED <<groupVars, callVars, pkg, parsed, owner>>

\* parseRefString: if sha1Regex == nil || sha1ShortRegex == nil
RaceShaCheck(g) ==
    /\ racers[g].pc = "shaCheck"
    /\ racers' = [racers EXCEPT ![g].pc =
                    IF pkg.sha1Regex = NilRegexp \/ pkg.sha1ShortRegex = NilRegexp
                    THEN "shaSet" ELSE "shaUse"]
    /\ UNCHANGED <<groupVars, callVars, pkg, parsed, owner>>

\* sha1Regex = regexp.MustCompile(sha1Pattern)
RaceShaSet(g) ==
    /\ racers[g].pc = "shaSet"
    /\ pkg' = [pkg EXCEPT !.sha1Regex = Compiled(PackageLoaded.sha1Regex)]
    /\ owner' = [owner EXCEPT !.sha1Regex = g]
    /\ racers' = [racers EXCEPT ![g].pc = "shaShortSet"]
    /\ UNCHANGED <<groupVars, callVars, parsed>>

\* sha1ShortRegex = regexp.MustCompile(sha1ShortPattern)
RaceShaShortSet(g) ==
    /\ racers[g].pc = "shaShortSet"
    /\ pkg' = [pkg EXCEPT !.sha1ShortRegex = Compiled(PackageLoaded.sha1ShortRegex)]
    /\ owner' = [owner EXCEPT !.sha1ShortRegex = g]
    /\ racers' = [racers EXCEPT ![g].pc = "shaUse"]
    /\ UNCHANGED <<groupVars, callVars, parsed>>

\* sha1Regex.MatchString(ref) || sha1ShortRegex.MatchString(ref), and the
\* rest of Parse
RaceShaUse(g) ==
    /\ racers[g].pc = "shaUse"
    /\ \E full \in readsRegexp(g, "sha1Regex"), short \in readsRegexp(g, "sha1ShortRegex"),
          p \in {Parse(racers[g].locator, defaultOptions)} :
          racers' = [racers EXCEPT ![g] =
                       [@ EXCEPT !.pc = "done",
                                 !.outcome =
                                    IF \/ full = RawRegexp
                                       \/ (short = RawRegexp /\ ~sha1Regex(p.c.RefString))
                                    THEN UndefinedParse
                                    ELSE ParsedAs(p)]]
    /\ UNCHANGED <<groupVars, callVars, pkg, parsed, owner>>

RaceNext ==
    \E g \in Goroutines :
        \/ RaceStart(g)
        \/ RaceSlugCheck(g)
        \/ RaceSlugSet(g)
        \/ RaceSlugUse(g)
        \/ RaceShaCheck(g)
        \/ RaceShaSet(g)
        \/ RaceShaShortSet(g)
        \/ RaceShaUse(g)

RaceSpec == RaceInit /\ [][RaceNext]_vars

\* ------------------------------------------------------------------------
\* Properties of CopyFileGroup
\* ------------------------------------------------------------------------

\* every locator of a batch, parsed with the default options
ParsedLocators == [l \in AllLocators |-> Parse(l, defaultOptions)]

\* the components of the locator of index i, the URL of its repository
\* and the URL or local path handed to git.Clone for it
ComponentsOf(i) == ParsedLocators[locators[i]].c

RepoURLs == [l \in AllLocators |-> RepoURL(ParsedLocators[l].c)]
RepoURLOf(i) == RepoURLs[locators[i]]

CloneURLs == [l \in AllLocators |-> CloneURL(ParsedLocators[l].c)]
CloneURLOf(i) == CloneURLs[locators[i]]

\* the indices whose locator does not parse
Unparsable == {i \in 1..Len(locators) : ParsedLocators[locators[i]].err}

\* the indices the plan loop has put into a plan, the plan of an index,
\* and whether two indices are in one plan
Planned ==
    {i \in 1..Len(locators) : \E k \in DOMAIN cloneList : i \in DOMAIN cloneList[k].Files}

PlanOf(i) == CHOOSE k \in DOMAIN cloneList : i \in DOMAIN cloneList[k].Files

SamePlan(i, j) ==
    \E k \in DOMAIN cloneList :
        i \in DOMAIN cloneList[k].Files /\ j \in DOMAIN cloneList[k].Files

\* the indices whose subpath cannot be opened or copied
FailingPaths ==
    {i \in 1..Len(locators) :
        ~(OpenOK(ComponentsOf(i).SubPath) /\ CopyOK(ComponentsOf(i).SubPath))}

\* the call went through its clone phase
ClonePhaseOver ==
    \/ dpc \in {"cloneCheck", "copyLoop", "copyWait", "copyDrain", "copyCheck",
                "crashed"}
    \/ dpc = "done" /\ ret.kind = "error" /\ ret.msg = "error cloning repositories"
    \/ dpc = "done" /\ ret.kind \in {"nil", "ErrorList"}

\* the call went through its copy phase and returned
CopyPhaseReturned == dpc = "done" /\ ret.kind \in {"nil", "ErrorList"}

RunningClones == {k \in DOMAIN ctask : ctask[k].pc \notin {"idle", "done"}}
RunningCopies == {i \in DOMAIN ktask : ktask[i].pc \notin {"idle", "done"}}

\* C1: two locators with the same repository URL and different revision
\* tokens are never served from the same clone: whatever writer i has
\* received was read from a clone made from a locator whose revision token
\* is the revision token of locator i.
C1_TokenOfServingClone ==
    /\ \A i, j \in Planned :
          /\ RepoURLOf(i) = RepoURLOf(j)
          /\ ComponentsOf(i).RefString # ComponentsOf(j).RefString
          => ~SamePlan(i, j)
    /\ \A i \in DOMAIN ktask :
          writers[i] # <<>> =>
              ParsedLocators[cloneList[ktask[i].plan].Locator].c.RefString
                  = ComponentsOf(i).RefString

\* C2: locators that name different repositories are never in the same
\* plan, and whatever writer i has received was read from a clone of the
\* repository locator i names (for the file transport, its own RepoPath).
C2_OwnRepository ==
    /\ \A i, j \in Planned :
          SamePlan(i, j) => CloneURLOf(i) = CloneURLOf(j)
    /\ \A i \in DOMAIN ktask :
          \A n \in 1..Len(writers[i]) :
              writers[i][n].fs.url = CloneURLOf(i)

\* C3: CloneRepository is called at most once for a plan key at any time,
\* failed or not, and once the clone phase is over it was called exactly
\* once for each key of the plan, every index being in exactly one plan.
C3_OneClonePerKey ==
    /\ \A k \in DOMAIN cloneCalls : cloneCalls[k] <= 1
    /\ ClonePhaseOver =>
          /\ DOMAIN cloneCalls = DOMAIN cloneList
          /\ \A k \in DOMAIN cloneCalls : cloneCalls[k] = 1
          /\ \A i \in 1..Len(locators) :
                \E k \in DOMAIN cloneList :
                    /\ i \in DOMAIN cloneList[k].Files
                    /\ \A m \in DOMAIN cloneList :
                          i \in DOMAIN cloneList[m].Files => m = k

\* C3, its case: a key that two indices share was cloned once, the clone
\* failed, and the call returned
C3_Witness ==
    /\ dpc = "done"
    /\ \E k \in DOMAIN cloneCalls :
          /\ cloneCalls[k] = 1
          /\ ctask[k].pc = "done"
          /\ ctask[k].err # NoErr
          /\ Cardinality(DOMAIN cloneList[k].Files) = 2

C5_WorkerCeiling ==
    /\ Cardinality(RunningClones) <= WorkerCeiling
    /\ Cardinality(RunningCopies) <= WorkerCeiling

\* C5, its case: a batch of more copies than the ceiling, with as many
\* running as the ceiling allows, after a clone phase of more plans than
\* the ceiling
C5_Witness ==
    /\ Len(locators) > WorkerCeiling
    /\ Cardinality(DOMAIN cloneList) > WorkerCeiling
    /\ Cardinality(RunningCopies) = WorkerCeiling

\* C6: when a copy task has started, every clone task of the batch has
\* finished and its filesystem handle is in its plan.
C6_CopyAfterClones ==
    (\E i \in DOMAIN ktask : ktask[i].pc # "idle") =>
        \A k \in DOMAIN cloneList :
            /\ ctask[k].pc = "done"
            /\ cloneList[k].FS = ctask[k].fsobj
            /\ ~cloneList[k].FS.nil

\* C6, its case: a copy task is reading the handle of one of several plans
C6_Witness ==
    /\ Cardinality(DOMAIN cloneList) >= 2
    /\ \E i \in DOMAIN ktask : ktask[i].pc = "io"

\* C7: once a clone task has failed, no copy task is started, no writer
\* receives anything, and the call can only return an error.
C7_CloneFailureFailsBatch ==
    (\E k \in DOMAIN ctask : ctask[k].err # NoErr) =>
        /\ \A i \in DOMAIN ktask : ktask[i].pc = "idle"
        /\ \A i \in DOMAIN writers : writers[i] = <<>>
        /\ dpc \in {"cloneLoop", "cloneWait", "cloneDrain", "cloneCheck", "done"}
        /\ dpc = "done" =>
              /\ ret.kind = "error"
              /\ ret.msg = "error cloning repositories"
              /\ ret.errs # {}

\* C7, its case: of two clones one failed and one succeeded, and the call
\* returned
C7_Witness ==
    /\ dpc = "done"
    /\ \E k, m \in DOMAIN ctask : ctask[k].err # NoErr /\ ~ctask[m].fsobj.nil

\* C8: a failed open or copy of one index does not stop the others: when
\* the call is over, every index whose subpath can be opened and copied
\* has the whole file of its plan's clone in its own writer.
C8_SiblingsServed ==
    (CopyPhaseReturned \/ dpc = "crashed") =>
        \A i \in 1..Len(locators) :
            i \notin FailingPaths =>
                writers[i] = <<FileContent(cloneList[PlanOf(i)].FS,
                                           ComponentsOf(i).SubPath, TRUE)>>

\* C9: after the copy phase the call returns nil exactly when no index
\* failed; otherwise an ErrorList of len(locators) entries of which entry
\* i is non-nil exactly when the open or copy of index i failed.
C9_PositionalErrors ==
    CopyPhaseReturned =>
        /\ ret.kind = "nil" <=> FailingPaths = {}
        /\ ret.kind = "ErrorList" =>
              /\ Len(ret.Errors) = Len(locators)
              /\ \A i \in 1..Len(locators) :
                    ret.Errors[i] # NoErr <=> i \in FailingPaths

\* C10 as stated: a locator that does not parse is a failure of its own
\* index, and the other locators are still planned, cloned and copied.
C10_ParseFailureRecorded ==
    (dpc = "done" /\ Len(locators) = Len(writers) /\ Unparsable # {}) =>
        /\ \A i \in Unparsable : ret.kind = "ErrorList" /\ ret.Errors[i] # NoErr
        /\ \A j \in 1..Len(locators) : j \notin Unparsable => j \in Planned

\* C10, amended: a locator that does not parse ends the call: it returns
\* "error parsing locator i" for the first such index i, the locators
\* after it are not planned, and nothing is cloned, copied or written.
C10_ParseFailureAborts ==
    (Unparsable # {} /\ Len(locators) = Len(writers)) =>
        LET first == CHOOSE i \in Unparsable : \A j \in Unparsable : i <= j
        IN  /\ dpc \in {"start", "plan", "done"}
            /\ Planned \subseteq 1..(first - 1)
            /\ cloneCalls = EmptyMap
            /\ \A i \in DOMAIN ktask : ktask[i].pc = "idle"
            /\ \A i \in DOMAIN writers : writers[i] = <<>>
            /\ dpc = "done" => ret = ReturnParseError(first)

\* C10, its case: the second locator does not parse, the first was
\* planned, and the call returned
C10_Witness ==
    /\ dpc = "done"
    /\ Unparsable = {2}
    /\ Planned = {1}
    /\ ret = ReturnParseError(2)

\* what Parse and CloneRepository give for a locator under given options
ParsedWith == [l \in AllLocators, o \in Funcs |-> Parse(l, o)]
ClonedWith == [l \in AllLocators, o \in Funcs |-> CloneRepository(l, o)]

\* C11: the options of the CopyFileGroup call are the options each locator
\* is parsed with and each plan's repository is cloned with: the
\* components of a plan are those Parse gives under these options, and the
\* handle a clone task gets is the one the single-locator clone gives
\* under these options.
C11_GroupOptionsUsed ==
    /\ \A k \in DOMAIN cloneList :
          cloneList[k].Components = ParsedWith[cloneList[k].Locator, funcs].c
    /\ \A k \in DOMAIN ctask :
          ctask[k].pc \in {"lock", "locked", "report", "done"} =>
              ctask[k].fsobj = ClonedWith[cloneList[k].Locator, funcs].fs


\* ------------------------------------------------------------------------
\* Properties of CloneRepository, CopyFile and Download
\* ------------------------------------------------------------------------

\* what Parse gives for the locator of a call under each set of options
CallParsed == [l \in CallLocators, o \in Funcs |-> Parse(l, o)]

\* the Clone calls the provider received
CloneCallsMade == {k \in DOMAIN provider : provider[k].fn = "Clone"}

\* the GetAuthMethod calls made
AuthCallsMade == {k \in DOMAIN provider : provider[k].fn = "GetAuthMethod"}

\* C12: the reference a clone asks for is the one Parse returns for the
\* locator under the caller's options; with RefIsBranch a token that is
\* neither a hash nor a refs/ path is cloned as refs/heads/<token>.
C12_CloneReferenceOfOptions ==
    \A k \in CloneCallsMade :
        provider[k].ReferenceName =
            CloneReference(CallParsed[call.locator, call.opts].c)


\* C13: with WithHttpAuth, ReadCredentials true and an https locator, the
\* Clone call carries basic-auth credentials with the caller's username
\* and password.
C13_BasicAuthForwarded ==
    \A k \in CloneCallsMade :
        ( /\ call.op = "CloneRepository"
          /\ call.opts.HttpUsername # ""
          /\ call.opts.ReadCredentials
          /\ frame.cloned.Transport = TransportHTTPS )
        => provider[k].Auth = [kind |-> "basic",
                               Username |-> call.opts.HttpUsername,
                               Password |-> call.opts.HttpPassword]


\* C14: with ReadCredentials false GetAuthMethod is never called and the
\* Clone call carries no credentials; with ReadCredentials true
\* GetAuthMethod is called exactly once, before Clone.
C14_CredentialsOnlyWhenAsked ==
    /\ ~call.opts.ReadCredentials =>
          /\ AuthCallsMade = {}
          /\ \A k \in CloneCallsMade : provider[k].Auth = NoAuth
    /\ call.opts.ReadCredentials =>
          /\ \A j, k \in AuthCallsMade : j = k
          /\ \A k \in CloneCallsMade : \E j \in AuthCallsMade : j < k

\* a clone made for a caller who gave a password and asked that no
\* credentials be read
C14_Witness ==
    /\ ~call.opts.ReadCredentials
    /\ call.opts.HttpUsername # ""
    /\ CloneCallsMade # {}
    /\ result.kind = "ok"


\* C15: CloneRepository on a locator whose parsed Tool is not "git", a
\* locator without a tool prefix included, returns an error and never calls
\* the provider's Clone.
C15_UnsupportedToolNotCloned ==
    ( /\ ~CallParsed[call.locator, defaultOptions].err
      /\ CallParsed[call.locator, defaultOptions].c.Tool # ToolGit )
    => /\ CloneCallsMade = {}
       /\ (spc = "done" => result.kind = "error")

\* CloneRepository has returned for a locator without a tool prefix
C15_Witness ==
    /\ call.op = "CloneRepository"
    /\ call.locator = "https://h/r#f"
    /\ CallParsed[call.locator, defaultOptions].c.Tool = ""
    /\ spc = "done"
    /\ result.kind = "error"


\* C16: CopyFile and Download on a locator whose SubPath is empty return an
\* error before any clone is attempted, and write nothing to the writer or
\* to the local directory.
C16_NoSubPathNoClone ==
    ( /\ call.op \in {"CopyFile", "Download"}
      /\ ~CallParsed[call.locator, call.opts].err
      /\ CallParsed[call.locator, call.opts].c.SubPath = "" )
    => /\ provider = <<>>
       /\ spc \in {"start", "done"}
       /\ dest.w = <<>>
       /\ dest.localDir = {}
       /\ (spc = "done" => result = ReturnErr("locator has no subpath defined"))

\* Download has returned for a locator without a subpath
C16_Witness ==
    /\ call.op = "Download"
    /\ call.locator = "git+https://h/r@v1"
    /\ spc = "done"
    /\ result.kind = "error"


\* ------------------------------------------------------------------------
\* Properties of Locator.Parse
\* ------------------------------------------------------------------------

\* Parse has returned the components of the locator
Accepted == call.op = "Parse" /\ spc = "done" /\ result.kind = "ok"

\* Parse has returned an error
Rejected == call.op = "Parse" /\ spc = "done" /\ result.kind = "error"

\* C17: for every locator Parse accepts, with RefIsBranch true or false,
\* at most one of Commit, Tag and Branch is non-empty.
C17_OneRevisionKind ==
    Accepted =>
        /\ result.components.Commit = "" \/ result.components.Tag = ""
        /\ result.components.Commit = "" \/ result.components.Branch = ""
        /\ result.components.Tag = "" \/ result.components.Branch = ""

\* a commit hash parsed with RefIsBranch set
C17_Witness ==
    /\ Accepted
    /\ call.opts.RefIsBranch
    /\ call.parts.token = "@1234567"
    /\ result.components.Commit = "1234567"


\* the path of the URI a locator spells, percent-decoded: all of the text
\* before the fragment when there is no "//" after the scheme (the file://
\* prefix is cut off before the URI is parsed), else what follows the
\* authority
PathSpelled(parts) ==
    With(parts.rest \o parts.token, LAMBDA s :
        IF parts.prefix \in {"", "file://"} THEN UnescapeStr(s)
        ELSE IF Index(s, "/") = 0 THEN ""
        ELSE UnescapeStr(From(s, Index(s, "/"))))

\* the text before and after the first '@' of a path
BeforeAt(s) == IF Index(s, "@") = 0 THEN s ELSE SubSeq(s, 1, Index(s, "@") - 1)
AfterAt(s) == IF Index(s, "@") = 0 THEN "" ELSE From(s, Index(s, "@") + 1)

\* C18: for every locator Parse accepts, RefString is the text after the
\* first '@' of the URI path, empty when there is none; it is the whole
\* token also when Tag or Branch holds it without its refs/tags/ or
\* refs/heads/ prefix, and RepoPath has neither that '@' nor what follows.
C18_RefStringIsToken ==
    Accepted =>
        /\ result.components.RefString = AfterAt(PathSpelled(call.parts))
        /\ result.components.Tag # "" =>
              result.components.RefString
                  \in {result.components.Tag,
                       "refs/tags/" \o result.components.Tag}
        /\ result.components.Branch # "" =>
              result.components.RefString
                  \in {result.components.Branch,
                       "refs/heads/" \o result.components.Branch}
        /\ ~Contains(result.components.RepoPath, "@")
        /\ \/ result.components.RepoPath = BeforeAt(PathSpelled(call.parts))
           \/ result.components.Transport = TransportFile

\* a refs/tags/ token kept whole in RefString next to the stripped Tag
C18_Witness ==
    /\ Accepted
    /\ call.parts.token = "@refs/tags/v1"
    /\ result.components.Tag = "v1"
    /\ result.components.RefString = "refs/tags/v1"


\* the scheme a locator spells: the prefix without its "://"
SchemeSpelled(parts) ==
    IF Index(parts.prefix, "://") = 0 THEN ""
    ELSE SubSeq(parts.prefix, 1, Index(parts.prefix, "://") - 1)

\* the locator is an owner/repo slug with or without a revision
SlugSpelled(parts) ==
    parts.prefix = "" /\ slugRegex(BeforeAt(PathSpelled(parts)))

C20_FilePrefixIsFile ==
    (Accepted /\ HasPrefix(call.locator, "file://")) =>
        /\ result.components.Transport = TransportFile
        /\ result.components.Tool = ToolGit


\* the host name a locator spells: none when there is no "//" after the
\* scheme, else the authority without user info and port
HostSpelled(parts) ==
    IF parts.prefix \in {"", "file://"} THEN ""
    ELSE With(SubSeq(parts.rest \o parts.token, 1,
                     Index(parts.rest \o parts.token \o "/", "/") - 1),
              LAMBDA authority :
         With(IF LastIndex(authority, "@") = 0 THEN authority
              ELSE From(authority, LastIndex(authority, "@") + 1),
              LAMBDA hostport :
              IF Index(hostport, ":") = 0 THEN hostport
              ELSE SubSeq(hostport, 1, Index(hostport, ":") - 1)))

\* the path of a file locator as spelled: the host name in front of the
\* path before the first '@'
FilePathSpelled(parts) ==
    With(HostSpelled(parts), LAMBDA host :
    With(BeforeAt(PathSpelled(parts)), LAMBDA path :
        IF host = "" THEN path
        ELSE IF path = "" THEN host
        ELSE host \o "/" \o TrimPrefix(path, "/")))

\* the locator spells the file transport
FileSpelled(parts) ==
    \/ parts.prefix = "file://"
    \/ ToLower(SchemeSpelled(parts)) = TransportFile
    \/ HasSuffix(SchemeSpelled(parts), "+file")

\* C21: components with Transport file have an empty Hostname and a
\* non-empty RepoPath, a host name of the URI being put in front of the
\* path; a file locator whose path comes out empty is rejected.
C21_FileHostInPath ==
    /\ (Accepted /\ result.components.Transport = TransportFile) =>
          /\ result.components.Hostname = ""
          /\ result.components.RepoPath # ""
          /\ result.components.RepoPath = FilePathSpelled(call.parts)
    /\ ( /\ call.op = "Parse" /\ spc = "done"
         /\ FileSpelled(call.parts)
         /\ FilePathSpelled(call.parts) = "" )
       => Rejected

\* a file locator with a host name and a path
C21_Witness ==
    /\ Accepted
    /\ call.locator = "git+file://u:p@h:80/r@v1#f"
    /\ result.components.RepoPath = "h/r"
    /\ result.components.Hostname = ""


\* the owner/repo texts among the paths the locators spell
SlugTexts == {"h/r", "A-b/c_9"}

\* the revision of a locator classified as parseRefString classifies it
ClassifiedAsToken ==
    [tag |-> result.components.Tag, branch |-> result.components.Branch,
     commitSha |-> result.components.Commit]
        = parseRefString(result.components.RefString, call.opts)

\* C22: a locator without scheme and host whose path before '@' is
\* owner/repo parses to Tool git, Transport https, Hostname github.com and
\* RepoPath owner/repo, its ref classified like any other, and RepoURL()
\* is https://github.com/owner/repo; no other path without a scheme does.
C22_SlugIsGitHub ==
    (call.op = "Parse" /\ spc = "done" /\ call.parts.prefix = "") =>
        IF BeforeAt(PathSpelled(call.parts)) \in SlugTexts
        THEN /\ Accepted
             /\ result.components.Tool = "git"
             /\ result.components.Transport = "https"
             /\ result.components.Hostname = "github.com"
             /\ result.components.RepoPath = BeforeAt(PathSpelled(call.parts))
             /\ result.components.RefString = AfterAt(PathSpelled(call.parts))
             /\ ClassifiedAsToken
             /\ RepoURL(result.components)
                    = "https://github.com/" \o BeforeAt(PathSpelled(call.parts))
        ELSE Rejected

\* a slug with a branch path and a subpath
C22_Witness ==
    /\ Accepted
    /\ call.locator = "A-b/c_9@refs/heads/main#f"
    /\ result.components.Branch = "main"
    /\ result.components.SubPath = "f"


\* the tokens of the grid that are 7 or 40 lowercase hexadecimal digits
HashTokens == {"1234567", "1234567890abcdef1234567890abcdef12345678"}

\* C23: a token of exactly 7 or 40 lowercase hexadecimal digits is the
\* Commit, with Tag and Branch empty, for both values of RefIsBranch; no
\* other token is taken for a commit.
C23_CommitIffHash ==
    Accepted =>
        IF result.components.RefString \in HashTokens
        THEN /\ result.components.Commit = result.components.RefString
             /\ result.components.Tag = ""
             /\ result.components.Branch = ""
        ELSE result.components.Commit = ""

\* a full hash parsed with RefIsBranch set
C23_Witness ==
    /\ Accepted
    /\ call.opts.RefIsBranch
    /\ result.components.RefString = "1234567890abcdef1234567890abcdef12345678"
    /\ result.components.Commit = result.components.RefString

\* C24: a token starting with refs/tags/ is the Tag without that prefix,
\* one starting with refs/heads/ the Branch without that prefix, the other
\* two fields empty, for both values of RefIsBranch.
C24_RefPathExplicit ==
    Accepted =>
        /\ HasPrefix(result.components.RefString, "refs/tags/") =>
              /\ "refs/tags/" \o result.components.Tag = result.components.RefString
              /\ result.components.Branch = ""
              /\ result.components.Commit = ""
        /\ HasPrefix(result.components.RefString, "refs/heads/") =>
              /\ "refs/heads/" \o result.components.Branch = result.components.RefString
              /\ result.components.Tag = ""
              /\ result.components.Commit = ""

\* a tag path parsed with RefIsBranch set
C24_Witness ==
    /\ Accepted
    /\ call.opts.RefIsBranch
    /\ result.components.RefString = "refs/tags/v1"
    /\ result.components.Tag = "v1"
    /\ result.components.Branch = ""

\* C25: a non-empty token that is no commit hash and does not start with
\* refs/ is the Branch when RefIsBranch is true and the Tag when it is
\* false, the other two fields empty.
C25_OptionBreaksTie ==
    ( /\ Accepted
      /\ result.components.RefString # ""
      /\ result.components.RefString \notin HashTokens
      /\ ~HasPrefix(result.components.RefString, "refs/") )
    => /\ result.components.Commit = ""
       /\ result.components.Branch =
              IF call.opts.RefIsBranch THEN result.components.RefString ELSE ""
       /\ result.components.Tag =
              IF call.opts.RefIsBranch THEN "" ELSE result.components.RefString

\* an uppercase hexadecimal token taken for a branch
C25_Witness ==
    /\ Accepted
    /\ call.opts.RefIsBranch
    /\ result.components.RefString = "ABCDEF1"
    /\ result.components.Branch = "ABCDEF1"

\* C26: a token that starts with refs/ but with neither refs/tags/ nor
\* refs/heads/ is left unclassified: Commit, Tag and Branch are empty and
\* RefString carries the token, for both values of RefIsBranch.
C26_OtherRefsUnclassified ==
    ( /\ Accepted
      /\ HasPrefix(result.components.RefString, "refs/")
      /\ ~HasPrefix(result.components.RefString, "refs/tags/")
      /\ ~HasPrefix(result.components.RefString, "refs/heads/") )
    => /\ result.components.Commit = ""
       /\ result.components.Tag = ""
       /\ result.components.Branch = ""


\* C27: Parse is deterministic: the same locator with the same options
\* gives the same outcome, components or error, however often it is parsed
\* and whatever was parsed in between.
C27_ParseDeterministic ==
    \A a, b \in DOMAIN parsed :
        (parsed[a].locator = parsed[b].locator /\ parsed[a].funcs = parsed[b].funcs)
            => parsed[a].outcome = parsed[b].outcome

\* a slug parsed without options before and after it was parsed with
\* WithRefAsBranch(true)
C27_Witness ==
    /\ Len(parsed) = 3
    /\ parsed[1].locator = "h/r@v1"
    /\ parsed[2].locator = "h/r@v1"
    /\ parsed[3].locator = "h/r@v1"
    /\ parsed[1].funcs = <<>>
    /\ parsed[2].funcs # <<>>
    /\ parsed[3].funcs = <<>>
    /\ parsed[1].outcome.c.Tag = "v1"
    /\ parsed[2].outcome.c.Branch = "v1"


\* the files of the tree that are the file, or lie in the directory, that a
\* subpath names
InsideSubPath(sub) ==
    {path \in RegularFiles :
        \/ path = TrimPrefix(sub, "/")
        \/ HasPrefix(path, TrimPrefix(sub, "/") \o "/")}

\* C28: Download writes exactly the files of the cloned tree inside the
\* directory, or being the file, that SubPath names, each under its path
\* in the repository; a file that only shares a string prefix with SubPath
\* is not written.
C28_DownloadSubtree ==
    (call.op = "Download" /\ spc = "done" /\ result.kind = "ok") =>
        /\ {e.path : e \in dest.localDir} = InsideSubPath(frame.components.SubPath)
        /\ \A e \in dest.localDir : e.content = FileContent(frame.fsobj, e.path, TRUE)


\* C29: GetGroup returns one byte slice for each locator, slice i holding
\* the content of locator i, and a nil error; or no data and an error.
C29_AllOrNothing ==
    /\ got.kind = "ok" =>
          /\ Len(got.data) = Len(locators)
          /\ \A i \in 1..Len(locators) :
                got.data[i] = <<FileContent(GroupClone[locators[i]].fs,
                                            ComponentsOf(i).SubPath, TRUE)>>
    /\ got.kind = "error" => got.data = <<>>


\* C30: in the two concurrent phases of CopyFileGroup the filesystem handle
\* of a plan is written only by the task that holds the mutex, and no two
\* workers are writing the unsynchronised map errs at the same time.
C30_WorkersSynchronised ==
    /\ \A k \in DOMAIN ctask : ctask[k].pc = "locked" => mutex = <<k>>
    /\ \A i, j \in mapWriters : i = j


\* C31: the mutex is held only by a clone task whose CloneRepository call
\* has returned and that has not yet reported completion (it is between
\* Lock and Unlock, around the store of the filesystem handle); no open or
\* copy is under way while it is held.
C31_NoLockAcrossIO ==
    /\ \A k \in DOMAIN ctask : mutex = <<k>> => ctask[k].pc = "locked"
    /\ \A k \in DOMAIN ctask :
          ctask[k].pc \in {"idle", "cloning", "lock", "report", "done"} => mutex # <<k>>
    /\ mutex # <<>> => \A i \in DOMAIN ktask : ktask[i].pc = "idle"

\* a clone task holds the mutex while another one is still cloning
C31_Witness ==
    \E k, j \in DOMAIN ctask :
        /\ k # j
        /\ mutex = <<k>>
        /\ ctask[k].pc = "locked"
        /\ ctask[j].pc = "cloning"


\* C32: when the call returns the error of the clone phase, the clone task
\* of every plan has been started once and has run to its end, the failed
\* ones and the others alike, and the handle of every clone that succeeded
\* is stored in its plan.
C32_FailedCloneStopsNoOther ==
    (dpc = "done" /\ ret.kind = "error" /\ ret.msg = "error cloning repositories") =>
        \A k \in DOMAIN cloneList :
            /\ cloneCalls[k] = 1
            /\ ctask[k].pc = "done"
            /\ cloneList[k].FS = ctask[k].fsobj
            /\ ctask[k].err # NoErr => CloneTaskError(k) \in ret.errs

\* C32, its case: the call returned the clone error of a batch of more
\* plans than workers, of which one failed and the others were cloned
C32_Witness ==
    /\ dpc = "done"
    /\ ret.kind = "error"
    /\ ret.msg = "error cloning repositories"
    /\ Cardinality(DOMAIN cloneList) > cloneWorkers
    /\ \E k \in DOMAIN ctask : ctask[k].err # NoErr
    /\ Cardinality({k \in DOMAIN ctask : ~ctask[k].fsobj.nil}) >= cloneWorkers


\* the calls CloneRepository made to the repository provider, in order
GitCalls == SelectSeq(provider, LAMBDA e : e.fn # "GetAuthMethod")
GitCallNames == [k \in DOMAIN GitCalls |-> GitCalls[k].fn]

\* the components CloneRepository works with
ClonedComponents == CallParsed[call.locator, defaultOptions].c

\* a revision that is neither branch, tag nor commit
OtherRevision(c) == c.Branch = "" /\ c.Tag = "" /\ c.Commit = "" /\ c.RefString # ""

\* the provider calls of a clone that succeeds
ExpectedGitCalls(c) ==
    <<"Clone">>
        \o (IF OtherRevision(c) THEN <<"Fetch", "Reference", "ResolveRevision">> ELSE <<>>)
        \o (IF c.Commit # "" \/ OtherRevision(c) THEN <<"Worktree", "Checkout">> ELSE <<>>)

IsPrefixOf(s, r) == Len(s) <= Len(r) /\ s = SubSeq(r, 1, Len(s))

\* C33: the provider calls of CloneRepository come in a fixed order: Clone
\* (with the branch reference, else the tag reference, else none), then
\* Fetch, Reference and ResolveRevision only for a revision that is neither
\* branch, tag nor commit, then the checkout exactly when a commit hash is
\* known; a branch, a tag or no revision is neither fetched nor checked out.
C33_ProviderOrder ==
    /\ IsPrefixOf(GitCallNames, ExpectedGitCalls(ClonedComponents))
    /\ frame.fsobj # NoFS => GitCallNames = ExpectedGitCalls(ClonedComponents)
    /\ \A k \in DOMAIN GitCalls :
          /\ GitCalls[k].fn = "Clone" =>
                GitCalls[k].ReferenceName =
                    (IF ClonedComponents.Branch # ""
                     THEN "refs/heads/" \o ClonedComponents.Branch
                     ELSE IF ClonedComponents.Tag # ""
                     THEN "refs/tags/" \o ClonedComponents.Tag
                     ELSE "")
          /\ GitCalls[k].fn = "Fetch" =>
                GitCalls[k].arg = ClonedComponents.RefString \o ":" \o ClonedComponents.RefString
          /\ GitCalls[k].fn \in {"Reference", "ResolveRevision"} =>
                GitCalls[k].arg = ClonedComponents.RefString
          /\ GitCalls[k].fn = "Checkout" =>
                GitCalls[k].arg = (IF ClonedComponents.Commit # ""
                                   THEN ClonedComponents.Commit
                                   ELSE "resolved:" \o ClonedComponents.RefString)

\* C33, its case: a clone of refs/notes/commits returned after the late
\* fetch and the checkout of the resolved commit
C33_Witness ==
    /\ call.locator = "git+https://h/r@refs/notes/commits#f"
    /\ frame.fsobj # NoFS
    /\ GitCallNames = <<"Clone", "Fetch", "Reference", "ResolveRevision",
                        "Worktree", "Checkout">>


\* the call e of the log is one that failed
StepFailed(e) ==
    IF e.fn = "GetAuthMethod"
    THEN ClonedComponents.Transport = TransportSSH /\ failAt = "GetAuthMethod"
    ELSE IF e.fn = "Clone"
    THEN failAt = "Clone" \/ e.URL = "" \/ HasPrefix(e.URL, "https://down/")
    ELSE e.fn = failAt

\* C34: a step of CloneRepository that fails is the last one it makes: the
\* call is over with a nil filesystem and an error, no later step is in
\* the log and the failed step is there once.  A locator that does not
\* parse or names another tool fails before any step.
C34_FailedStepIsLast ==
    /\ \A k \in DOMAIN provider :
          StepFailed(provider[k]) =>
              /\ k = Len(provider)
              /\ \A j \in DOMAIN provider : provider[j].fn = provider[k].fn => j = k
              /\ spc = "done"
              /\ result.kind = "error"
              /\ result.err # NoErr
              /\ result.fs = NoFS
              /\ frame.fsobj = NoFS
              /\ dest.w = <<>>
              /\ dest.localDir = {}
    /\ (CallParsed[call.locator, defaultOptions].err \/ ClonedComponents.Tool # ToolGit) =>
          /\ provider = <<>>
          /\ spc = "done" => result.kind = "error" /\ result.fs = NoFS

\* C34, its case: the checkout of a late-fetched reference failed
C34_Witness ==
    /\ call.op = "CloneRepository"
    /\ failAt = "Checkout"
    /\ GitCallNames = <<"Clone", "Fetch", "Reference", "ResolveRevision",
                        "Worktree", "Checkout">>
    /\ result.kind = "error"


\* the indices the plan loop has gone through whose key is k
KeyMembers(k) ==
    {j \in 1..Len(locators) :
        j < idx /\ RepoURLOf(j) \o ":" \o ComponentsOf(j).RefString = k}

FirstOf(members) == CHOOSE j \in members : \A m \in members : j <= m

\* C35: the locator and the components of a plan are those of the lowest
\* index that has the plan's key; the other indices of the key are in the
\* plan with their subpaths only, and the clone of the plan is the clone of
\* that first locator.
C35_FirstLocatorRepresents ==
    \A k \in DOMAIN cloneList :
        /\ KeyMembers(k) # {}
        /\ cloneList[k].Locator = locators[FirstOf(KeyMembers(k))]
        /\ cloneList[k].Components = ComponentsOf(FirstOf(KeyMembers(k)))
        /\ DOMAIN cloneList[k].Files = KeyMembers(k)
        /\ \A j \in KeyMembers(k) : cloneList[k].Files[j] = ComponentsOf(j).SubPath
        /\ (k \in DOMAIN ctask /\ ctask[k].pc \in {"lock", "locked", "report", "done"}) =>
              ctask[k].fsobj = GroupClone[locators[FirstOf(KeyMembers(k))]].fs

\* C35, its case: two different locators have one key, and the plan was
\* cloned
C35_Witness ==
    /\ Len(locators) = 2
    /\ locators[1] # locators[2]
    /\ \E k \in DOMAIN ctask : KeyMembers(k) = {1, 2} /\ ctask[k].pc = "done"


\* C36: every call of CopyFileGroup returns.
C36_Terminates == <>(dpc = "done")

\* every call returns or the runtime ends the process; it never hangs
ReturnsOrCrashes == <>(dpc \in {"done", "crashed"})

\* the tasks and the throttlers agree: every task that ended has reported
\* once, and when the copy phase is over one task was started for each
\* index
TasksReportOnce ==
    /\ t.jobsStarted = Cardinality({k \in DOMAIN ctask : ctask[k].pc # "idle"})
    /\ t2.jobsStarted = Cardinality({i \in DOMAIN ktask : ktask[i].pc # "idle"})
    /\ dpc = "copyCheck" =>
          /\ \A i \in DOMAIN ktask : ktask[i].pc = "done"
          /\ \A i \in DOMAIN ktask :
                Cardinality({k \in DOMAIN cloneList : i \in DOMAIN cloneList[k].Files}) = 1


\* C37: a writer receives at most one copy, of the path its locator asks
\* for; and a step that writes to writer i is the step of the copy task of
\* index i that ends its open and copy, and writes to no other writer.
C37_OwnWriterOnly ==
    /\ [](\A i \in DOMAIN writers :
             /\ Len(writers[i]) <= 1
             /\ \A n \in DOMAIN writers[i] :
                   /\ i <= Len(locators)
                   /\ writers[i][n].path = ComponentsOf(i).SubPath)
    /\ [][\A i \in DOMAIN writers :
             writers'[i] # writers[i] =>
                 /\ i \in DOMAIN ktask
                 /\ ktask[i].pc = "io"
                 /\ ktask'[i].pc # "io"
                 /\ \A j \in DOMAIN writers : j # i => writers'[j] = writers[j]]_vars

\* C37, its case: the copy tasks of two indices that ask for different
\* paths have both written
C37_Witness ==
    \E i, j \in DOMAIN writers :
        /\ writers[i] # <<>>
        /\ writers[j] # <<>>
        /\ writers[i][1].path # writers[j][1].path


\* C38: a call with a number of writers that is not the number of locators
\* never enters the plan loop: nothing is parsed or planned, no throttler
\* is made, no clone or copy task is started and no writer is written; the
\* call returns the error of the mismatch.
C38_MismatchDoesNothing ==
    Len(writers) # Len(locators) =>
        /\ dpc \in {"start", "done"}
        /\ idx = 1
        /\ cloneList = EmptyMap
        /\ ctask = EmptyMap
        /\ cloneCalls = EmptyMap
        /\ t = NoThrottler
        /\ t2 = NoThrottler
        /\ \A i \in DOMAIN ktask : ktask[i].pc = "idle"
        /\ errs = EmptyMap
        /\ \A j \in DOMAIN writers : writers[j] = <<>>
        /\ dpc = "done" =>
              /\ ret.kind = "error"
              /\ ret.msg = "number of writers does not match the number of VCS locators"

\* C38, its case: a call with more writers than locators has returned
C38_Witness ==
    /\ Len(writers) > Len(locators)
    /\ Len(locators) > 0
    /\ dpc = "done"


\* C39: Parse calls that run at the same time in a process that has
\* compiled nothing yet each return what a call alone returns; no call uses
\* a pattern that is not initialised, and a regexp variable is nil or holds
\* its one compiled pattern.
C39_LazyInitBenign ==
    /\ \A g \in DOMAIN racers :
          racers[g].pc = "done" =>
              racers[g].outcome = ParsedAs(Parse(racers[g].locator, defaultOptions))
    /\ \A name \in {"slugRegex", "sha1Regex", "sha1ShortRegex"} :
          pkg[name] \in {NilRegexp, PackageLoaded[name]}

====
